---- MODULE Spec2Model ----
(***************************************************************************)
(* Model of the route-avoidance engine of AI-Route-Optimizer:              *)
(*   src/optimized_routing.py   (live definitions, lines 455-1018)         *)
(*   src/enhanced_navigation.py (EnhancedNavigationSystem)                 *)
(*   src/route_optimization.py  (the caller, main)                         *)
(*                                                                         *)
(* Number representation.  The program computes in floating point; the     *)
(* model computes in integers, rounding to the nearest unit:               *)
(*   - a coordinate is an integer count of 1/111000 degree (the program's  *)
(*     own metre-to-degree conversion, optimized_routing.py:897), so that  *)
(*     "metres / 111000" degrees is "metres" coordinate units;             *)
(*   - a length is in metres (route 'distance', in km in the program, is   *)
(*     kept in metres: 1 km = 1000 units);                                 *)
(*   - a duration (minutes in the program) is kept in seconds;             *)
(*   - a percentage or a score is kept in hundredths (100.0 = 10000).      *)
(***************************************************************************)
EXTENDS Integers, Sequences, FiniteSets, TLC

(***************************************************************************)
(* Arithmetic helpers                                                      *)
(***************************************************************************)
Abs(x) == IF x < 0 THEN -x ELSE x

Min(a, b) == IF a <= b THEN a ELSE b

Max(a, b) == IF a >= b THEN a ELSE b

\* a * b / c rounded to the nearest integer, symmetric in the sign of a*b (c > 0)
MulDiv(a, b, c) ==
    LET p == a * b
    IN  IF p >= 0 THEN (2 * p + c) \div (2 * c) ELSE -((2 * (-p) + c) \div (2 * c))

RECURSIVE ISqrtIter(_, _)
ISqrtIter(n, x) ==
    LET y == (x + n \div x) \div 2
    IN  IF y >= x THEN x ELSE ISqrtIter(n, y)

\* A power of two above the square root of n (n < 2^31)
SqrtGuess(n) ==
    IF n < 65536
    THEN (IF n < 256 THEN 16 ELSE IF n < 4096 THEN 64 ELSE 256)
    ELSE (IF n < 1048576 THEN 1024
          ELSE IF n < 16777216 THEN 4096
          ELSE IF n < 268435456 THEN 16384
          ELSE 46340)

\* floor of the square root (Newton's iteration from above)
ISqrt(n) == IF n <= 0 THEN 0 ELSE ISqrtIter(n, SqrtGuess(n))

\* 1000 * sin(pi * p / q) for 0 <= p <= q, by Bhaskara's rational approximation
SinHalfTurn(p, q) ==
    LET t == p * (q - p)
    IN  MulDiv(16000, t, 5 * q * q - 4 * t)

\* 1000 * sin(pi * p / q) for any p >= 0 (q > 0)
SinMilli(p, q) ==
    LET r == p % (2 * q)
    IN  IF r <= q THEN SinHalfTurn(r, q) ELSE -SinHalfTurn(r - q, q)

\* 1000 * cos(pi * p / q), as sin(pi * (p / q + 1/2))
CosMilli(p, q) == SinMilli(2 * p + q, 2 * q)

\* 10000 * cos and 10000 * sin of the compass angles the network builder uses
Cos10k(angle) ==
    CASE angle = 0   -> 10000
      [] angle = 45  -> 7071
      [] angle = 60  -> 5000
      [] angle = 90  -> 0
      [] angle = 120 -> -5000
      [] angle = 135 -> -7071
      [] angle = 180 -> -10000
      [] angle = 225 -> -7071
      [] angle = 240 -> -5000
      [] angle = 270 -> 0
      [] angle = 300 -> 5000
      [] angle = 315 -> 7071

Sin10k(angle) ==
    CASE angle = 0   -> 0
      [] angle = 45  -> 7071
      [] angle = 60  -> 8660
      [] angle = 90  -> 10000
      [] angle = 120 -> 8660
      [] angle = 135 -> 7071
      [] angle = 180 -> 0
      [] angle = 225 -> -7071
      [] angle = 240 -> -8660
      [] angle = 270 -> -10000
      [] angle = 300 -> -8660
      [] angle = 315 -> -7071

(***************************************************************************)
(* geopy.distance.geodesic(a, b).meters between two (lat, lon) pairs.      *)
(* The library is not part of the repository; it is modelled as the plane  *)
(* distance at the latitude of the program's default scene (19.1 N, where  *)
(* a degree of longitude is 0.945 of a degree of latitude), so that it     *)
(* differs from the program's own 111000-metres-per-degree conversion.     *)
(***************************************************************************)
geodesic(a, b) ==
    LET dlat == a[1] - b[1]
        dlon == MulDiv(a[2] - b[2], 945, 1000)
    IN  ISqrt(dlat * dlat + dlon * dlon)

(***************************************************************************)
(* Sequence helpers                                                        *)
(***************************************************************************)
\* Sum and concatenation by halving, so that the recursion stays shallow.
RECURSIVE SumRange(_, _, _)
SumRange(s, lo, hi) ==
    IF lo > hi THEN 0
    ELSE IF lo = hi THEN s[lo]
    ELSE LET mid == (lo + hi) \div 2
         IN  SumRange(s, lo, mid) + SumRange(s, mid + 1, hi)

SumSeq(s) == SumRange(s, 1, Len(s))

RECURSIVE FlattenRange(_, _, _)
FlattenRange(ss, lo, hi) ==
    IF lo > hi THEN <<>>
    ELSE IF lo = hi THEN ss[lo]
    ELSE LET mid == (lo + hi) \div 2
         IN  FlattenRange(ss, lo, mid) \o FlattenRange(ss, mid + 1, hi)

FlattenSeq(ss) == FlattenRange(ss, 1, Len(ss))

\* The same sequence as an explicit tuple, so that it is computed once.
AsSeq(f) == f \o <<>>

(***************************************************************************)
(* Route Provider: the synthetic generator                                 *)
(* (OptimizedRouteEngine._generate_realistic_segment,                      *)
(*  OptimizedRouteEngine._create_realistic_route)                          *)
(***************************************************************************)
\* One point of a generated segment: linear interpolation plus, for interior
\* points, the sinusoidal offset curve_factor * sin(2.1 pi progress) on the
\* latitude and curve_factor * cos(1.8 pi progress) on the longitude.
SegmentPoint(a, b, i, num_points, curve_factor) ==
    LET lat == a[1] + MulDiv(b[1] - a[1], i, num_points)
        lon == a[2] + MulDiv(b[2] - a[2], i, num_points)
    IN  IF 0 < i /\ i < num_points
        THEN << lat + MulDiv(curve_factor, SinMilli(21 * i, 10 * num_points), 1000),
                lon + MulDiv(curve_factor, CosMilli(18 * i, 10 * num_points), 1000) >>
        ELSE << lat, lon >>

\* A segment that is the straight line between its end points
StraightSegment(a, b) == << a, b >>

\* Lines 634-658: the points of one segment
generate_realistic_segment(a, b) ==
    LET distance     == geodesic(a, b)
        \* max(8, int(distance_km * 2))
        num_points   == Max(8, (2 * distance) \div 1000)
        \* 0.0002 * distance_km degrees = 0.0222 * distance_m coordinate units
        curve_factor == MulDiv(distance, 222, 10000)
    IN  AsSeq([i \in 1..(num_points + 1) |->
                   SegmentPoint(a, b, i - 1, num_points, curve_factor)])

\* [start, waypoint..., end]
AllPoints(start, end, waypoints) == <<start>> \o waypoints \o <<end>>

\* A provider that has no route when the mirrors are down
NoRoute(start, end, waypoints) == [ success |-> FALSE, service |-> "Offline" ]

create_realistic_route(start, end, waypoints) ==
    LET all_points == AllPoints(start, end, waypoints)
        legs       == 1..(Len(all_points) - 1)
        total_distance ==
            SumSeq([i \in legs |-> geodesic(all_points[i], all_points[i + 1])])
        route_points ==
            FlattenSeq([i \in legs |->
                LET segment_points ==
                        generate_realistic_segment(all_points[i], all_points[i + 1])
                IN  IF i = 1 THEN segment_points ELSE Tail(segment_points)])
    IN  [ route    |-> route_points,
          distance |-> total_distance,
          \* (km / 40) * 60 minutes = 0.09 seconds per metre
          duration |-> MulDiv(total_distance, 9, 100),
          success  |-> TRUE,
          service  |-> "Offline" ]

(***************************************************************************)
(* Conflict Detector (OptimizedRouteEngine.calculate_route_conflicts)      *)
(***************************************************************************)
\* The sample point of segment (point_a, point_b) at ratio j/4.
CheckPoint(point_a, point_b, j) ==
    << point_a[1] + MulDiv(point_b[1] - point_a[1], j, 4),
       point_a[2] + MulDiv(point_b[2] - point_a[2], j, 4) >>

\* The test of line 687: the sample lies within radius + 150 m of the centre.
InConflict(distance_to_blockage, blockage) ==
    distance_to_blockage <= blockage.radius + 150

\* The loops of lines 679-698 from sample j and blockage k on: the first
\* conflicting (sample, blockage) pair of the segment as a one-element
\* sequence, or <<>> when no sample conflicts.
RECURSIVE FirstHit(_, _, _, _, _, _)
FirstHit(i, point_a, point_b, blks, j, k) ==
    IF j > 4 THEN <<>>
    ELSE IF k > Len(blks) THEN FirstHit(i, point_a, point_b, blks, j + 1, 1)
    ELSE LET \* lines 687-696 for the sample and its distance to the centre
             Test(check, distance_to_blockage) ==
                 IF InConflict(distance_to_blockage, blks[k])
                 THEN << [ index              |-> i,
                           point              |-> check,
                           blockage           |-> blks[k],
                           distance_to_center |-> distance_to_blockage ] >>
                 ELSE FirstHit(i, point_a, point_b, blks, j, k + 1)
             \* line 685 for the sample
             Measure(check) ==
                 Test(check, geodesic(check, <<blks[k].lat, blks[k].lon>>))
         IN  Measure(CheckPoint(point_a, point_b, j))

\* The segment loop of lines 669-701 from segment i (1-based here; the
\* recorded 'index' is the program's 0-based i).
RECURSIVE ConflictScan(_, _, _, _)
ConflictScan(route, blks, i, acc) ==
    IF i > Len(route) - 1 THEN acc
    ELSE LET \* the totals after a segment of this length and with this hit
             Add(segment_length, hit) ==
                 [ conflict_points    |-> acc.conflict_points \o hit,
                   total_route_length |-> acc.total_route_length + segment_length,
                   conflict_length    |-> acc.conflict_length
                                          + (IF hit # <<>> THEN segment_length ELSE 0) ]
         IN  ConflictScan(route, blks, i + 1,
                 Add(geodesic(route[i], route[i + 1]),
                     FirstHit(i - 1, route[i], route[i + 1], blks, 0, 1)))

\* conflict_length / total_route_length * 100, in hundredths of a percent
ConflictPercentage(conflict_length, total_route_length) ==
    IF total_route_length > 0
    THEN (conflict_length * 10000) \div total_route_length
    ELSE 0

calculate_route_conflicts(route, blks) ==
    IF route = <<>> \/ blks = <<>>
    THEN [ has_conflicts       |-> FALSE,
           conflict_points     |-> <<>>,
           conflict_percentage |-> 0 ]
    ELSE LET \* the returned dictionary of lines 707-714, from the loop's totals
             Totals(acc) ==
                 [ has_conflicts       |-> Len(acc.conflict_points) > 0,
                   conflict_points     |-> acc.conflict_points,
                   conflict_percentage |->
                       Min(ConflictPercentage(acc.conflict_length,
                                              acc.total_route_length),
                           10000),
                   total_points        |-> Len(route),
                   conflict_length     |-> acc.conflict_length,
                   total_length        |-> acc.total_route_length ]
         IN  Totals(ConflictScan(route, blks, 1,
                        [ conflict_points |-> <<>>, total_route_length |-> 0,
                          conflict_length |-> 0 ]))

(***************************************************************************)
(* Route Scorer (RoutePath.calculate_score)                                *)
(***************************************************************************)
\* -infinity: the score when detour_ratio = float('inf') is subtracted
NegInf == -1000000000

\* The detour adjustment of lines 519-524 applied to score.
DetourAdjust(score, total_distance, direct_distance) ==
    IF direct_distance <= 0 THEN NegInf
    ELSE IF 2 * total_distance > 5 * direct_distance
         THEN score - ((4000 * total_distance) \div direct_distance - 10000)
    ELSE IF 2 * total_distance < 3 * direct_distance
         THEN score + 2000
    ELSE score

\* The conflict adjustment of lines 512-517 applied to the efficiency.
ConflictAdjust(efficiency, conflicts) ==
    IF conflicts.has_conflicts
    THEN Max(0, efficiency - conflicts.conflict_percentage * 20)
    ELSE efficiency + 10000

\* Returns the score and the efficiency_score the call leaves on the path
\* object (0, its initial value, when the call returns early).
calculate_score(total_distance, conflicts, direct_distance) ==
    IF total_distance <= 0
    THEN [ score |-> 0, efficiency_score |-> 0 ]
    ELSE LET efficiency == Min(10000, (direct_distance * 10000) \div total_distance)
         IN  [ score            |-> DetourAdjust(ConflictAdjust(efficiency, conflicts),
                                                 total_distance, direct_distance),
               efficiency_score |-> efficiency ]

(***************************************************************************)
(* Waypoint Network Builder                                                *)
(* (OptimizedRouteEngine._build_comprehensive_network)                     *)
(***************************************************************************)
PathNode(lat, lon, node_type, name) ==
    [ lat |-> lat, lon |-> lon, node_type |-> node_type, name |-> name ]

\* rings = [1.5, 2.0, 2.5, 3.0], in tenths
rings == << 15, 20, 25, 30 >>

angles == << 0, 45, 90, 135, 180, 225, 270, 315 >>

cluster_angles == << 0, 60, 120, 180, 240, 300 >>

\* cluster distances are max_extent * [1.8, 2.2, 2.6], in tenths
cluster_multipliers == << 18, 22, 26 >>

\* The point at distance_m metres from (lat, lon) on the bearing angle, by the
\* program's conversion: distance_m / 111000 degrees, times cos on the
\* latitude and times sin on the longitude.
OffsetPoint(lat, lon, distance_m, angle) ==
    << lat + MulDiv(distance_m, Cos10k(angle), 10000),
       lon + MulDiv(distance_m, Sin10k(angle), 10000) >>

\* The test of lines 912 and 952: the waypoint is within the blockage's radius
\* plus the safety buffer.
TooClose(distance_to_blockage, check_blockage, buffer) ==
    distance_to_blockage <= check_blockage.radius + buffer

\* A safety test against the first blockage only
SafeFromFirst(waypoint, blks, buffer) ==
    ~TooClose(geodesic(waypoint, <<blks[1].lat, blks[1].lon>>), blks[1], buffer)

\* The loops of lines 908-914 and 950-954: is_safe.
IsSafe(waypoint, blks, buffer) ==
    \A k \in 1..Len(blks) :
        ~TooClose(geodesic(waypoint, <<blks[k].lat, blks[k].lon>>), blks[k], buffer)

\* Lines 888-919 for blockage i, one ring and one angle: the node, or nothing.
RingNode(blks, i, ring_multiplier, angle) ==
    LET blockage           == blks[i]
        base_safe_distance == Max(MulDiv(blockage.radius, ring_multiplier, 10), 1000)
        waypoint == OffsetPoint(blockage.lat, blockage.lon, base_safe_distance, angle)
    IN  IF IsSafe(waypoint, blks, 300)
        THEN << PathNode(waypoint[1], waypoint[2], "waypoint",
                         <<"WP_B", i, ring_multiplier, angle>>) >>
        ELSE <<>>

\* Lines 883-919: the per-blockage rings, blockages outer, rings, then angles.
RingNodes(blks) ==
    FlattenSeq([i \in 1..Len(blks) |->
        FlattenSeq([r \in 1..Len(rings) |->
            FlattenSeq([a \in 1..Len(angles) |->
                RingNode(blks, i, rings[r], angles[a])])])])

\* Lines 923-931: the centroid and the cluster extent.
ClusterCenter(blks) ==
    << MulDiv(SumSeq([k \in 1..Len(blks) |-> blks[k].lat]), 1, Len(blks)),
       MulDiv(SumSeq([k \in 1..Len(blks) |-> blks[k].lon]), 1, Len(blks)) >>

RECURSIVE MaxExtent(_, _, _)
MaxExtent(blks, center, k) ==
    IF k > Len(blks) THEN 0
    ELSE Max(geodesic(center, <<blks[k].lat, blks[k].lon>>) + blks[k].radius,
             MaxExtent(blks, center, k + 1))

\* Lines 936-959 for one cluster distance and one angle: the node, or nothing.
ClusterNode(blks, center, cluster_distance, angle) ==
    LET waypoint == OffsetPoint(center[1], center[2], cluster_distance, angle)
    IN  IF IsSafe(waypoint, blks, 500)
        THEN << PathNode(waypoint[1], waypoint[2], "waypoint",
                         <<"Cluster_WP", cluster_distance \div 1000, angle>>) >>
        ELSE <<>>

\* Lines 921-959: the cluster bypass waypoints, for more than one blockage.
ClusterNodes(blks) ==
    IF Len(blks) > 1
    THEN LET center     == ClusterCenter(blks)
             max_extent == MaxExtent(blks, center, 1)
         IN  FlattenSeq([d \in 1..Len(cluster_multipliers) |->
                 FlattenSeq([a \in 1..Len(cluster_angles) |->
                     ClusterNode(blks, center,
                                 MulDiv(max_extent, cluster_multipliers[d], 10),
                                 cluster_angles[a])])])
    ELSE <<>>

build_comprehensive_network(start, end, blks) == RingNodes(blks) \o ClusterNodes(blks)

(***************************************************************************)
(* Path Combination Explorer                                               *)
(* (OptimizedRouteEngine._explore_all_path_combinations)                   *)
(***************************************************************************)
max_combinations == 50

\* list.sort / sorted: a stable sort of <<key, item>> pairs, ascending by key.
\* An element's place is one more than the number of elements that have a
\* smaller key, or an equal key and an earlier position.
SortByKey(s) ==
    LET t   == AsSeq(s)
        n   == Len(t)
        pos == AsSeq([i \in 1..n |->
                   1 + Cardinality({j \in 1..n :
                           \/ t[j][1] < t[i][1]
                           \/ (t[j][1] = t[i][1] /\ j < i)})])
    IN  AsSeq([p \in 1..n |-> t[CHOOSE i \in 1..n : pos[i] = p]])

Items(pairs) == AsSeq([i \in 1..Len(pairs) |-> pairs[i][2]])

\* Lines 969-985: the single-waypoint combinations, in network order.
SingleCombination(start, end, node, direct_distance) ==
    LET wp             == <<node.lat, node.lon>>
        total_distance == geodesic(start, wp) + geodesic(wp, end)
    IN  IF total_distance <= direct_distance * 3
        THEN << [ name               |-> <<"Single WP", node.name>>,
                  waypoints          |-> <<wp>>,
                  estimated_distance |-> total_distance,
                  waypoint_count     |-> 1 ] >>
        ELSE <<>>

\* A condition that takes a radius of exactly 1500 m as well
DualFrom1500(blks) ==
    Len(blks) > 1 \/ \E k \in 1..Len(blks) : blks[k].radius >= 1500

\* Line 988: the condition for two-waypoint paths.
WantsDual(blks) ==
    Len(blks) > 1 \/ \E k \in 1..Len(blks) : blks[k].radius > 1500

\* Lines 990-991: the 20 nodes closest to the start.
TopNodes(start, network_nodes) ==
    LET sorted_nodes ==
            Items(SortByKey([i \in 1..Len(network_nodes) |->
                << geodesic(<<network_nodes[i].lat, network_nodes[i].lon>>, start),
                   network_nodes[i] >>]))
    IN  SubSeq(sorted_nodes, 1, Min(20, Len(sorted_nodes)))

\* Lines 993-1007 for one pair of nodes: the combination, or nothing.
DualCombination(start, end, node1, node2, direct_distance) ==
    LET wp1 == <<node1.lat, node1.lon>>
        wp2 == <<node2.lat, node2.lon>>
        total_distance == geodesic(start, wp1) + geodesic(wp1, wp2) + geodesic(wp2, end)
    IN  \* total_distance <= direct_distance * 3.5
        IF 2 * total_distance <= direct_distance * 7
        THEN << [ name               |-> <<"Dual WP", node1.name, node2.name>>,
                  waypoints          |-> <<wp1, wp2>>,
                  estimated_distance |-> total_distance,
                  waypoint_count     |-> 2 ] >>
        ELSE <<>>

\* itertools.combinations(top_nodes, 2): pairs (i, j), i < j, in index order.
DualCombinations(start, end, top_nodes, direct_distance) ==
    FlattenSeq([i \in 1..Len(top_nodes) |->
        FlattenSeq([d \in 1..(Len(top_nodes) - i) |->
            DualCombination(start, end, top_nodes[i], top_nodes[i + d],
                            direct_distance)])])

\* Lines 966-1007: path_combinations before the sort.
AllCombinations(start, end, network_nodes, blks) ==
    LET direct_distance == geodesic(start, end)
    IN  FlattenSeq([i \in 1..Len(network_nodes) |->
            SingleCombination(start, end, network_nodes[i], direct_distance)])
        \o (IF WantsDual(blks)
            THEN DualCombinations(start, end, TopNodes(start, network_nodes),
                                  direct_distance)
            ELSE <<>>)

\* A list that is cut without being sorted
Unsorted(path_combinations) == path_combinations

\* Line 1010: path_combinations.sort(key = estimated_distance).
SortCombinations(path_combinations) ==
    Items(SortByKey([i \in 1..Len(path_combinations) |->
        << path_combinations[i].estimated_distance, path_combinations[i] >>]))

\* Lines 1013-1016: keep the first max_combinations.
Truncate(path_combinations) ==
    IF Len(path_combinations) > max_combinations
    THEN SubSeq(path_combinations, 1, max_combinations)
    ELSE path_combinations

explore_all_path_combinations(start, end, network_nodes, blks) ==
    Truncate(SortCombinations(AllCombinations(start, end, network_nodes, blks)))

(***************************************************************************)
(* Route Provider: the mirrors (OptimizedRouteEngine.get_reliable_route)   *)
(***************************************************************************)
routing_services == << "https://router.project-osrm.org", "http://router.project-osrm.org" >>

\* (lat, lon) -> GeoJSON [lon, lat], and back (line 584)
Swap(coord) == << coord[2], coord[1] >>

SwapAll(coords) == AsSeq([i \in 1..Len(coords) |-> Swap(coords[i])])

\* What one mirror does with one request: requests.get raises (timeout,
\* connection error, undecodable body), or it answers with a status code and
\* a JSON body {code, routes}.
Raised == [ raised |-> TRUE, status_code |-> 0, code |-> "", routes |-> <<>> ]

Answer(status_code, code, routes) ==
    [ raised |-> FALSE, status_code |-> status_code, code |-> code, routes |-> routes ]

\* A test of the body that does not look at the HTTP status
StatusIgnored(response) == response.code = "Ok" /\ response.routes # <<>>

\* Lines 571 and 574: response.status_code == 200, and
\* data.get('code') == 'Ok' and data.get('routes')
WellFormed(response) ==
    response.status_code = 200 /\ response.code = "Ok" /\ response.routes # <<>>

\* A test that looks only at the number of routes
ManyRoutes(waypoints, routes) == Len(routes) > 1

\* Line 575: the answer is handed back as a multi-route result.
ReturnsMultiple(waypoints, routes) == waypoints = <<>> /\ Len(routes) > 1

\* Lines 553-597 from mirror number server on, given what each mirror does.
RECURSIVE TryServers(_, _, _, _, _)
TryServers(start, end, waypoints, responses, server) ==
    IF server > Len(routing_services)
    THEN create_realistic_route(start, end, waypoints)
    ELSE LET response == responses[server]
             next     == TryServers(start, end, waypoints, responses, server + 1)
         IN  IF response.raised THEN next
             ELSE IF ~WellFormed(response) THEN next
             ELSE IF ReturnsMultiple(waypoints, response.routes)
                  THEN [ routes          |-> response.routes,
                         multiple_routes |-> TRUE,
                         service         |-> "OSRM" ]
             ELSE LET route_info == response.routes[1]
                  IN  \* a route without geometry raises KeyError: next mirror
                      IF "geometry" \notin DOMAIN route_info THEN next
                      ELSE [ route    |-> SwapAll(route_info.geometry.coordinates),
                             distance |-> route_info.distance,
                             duration |-> route_info.duration,
                             success  |-> TRUE,
                             service  |-> "OSRM" ]

get_reliable_route(start, end, waypoints, responses) ==
    TryServers(start, end, waypoints, responses, 1)

\* Lines 553-595: the mirrors that get a request, in the order of the
\* requests, from mirror number server on
RECURSIVE Contacted(_, _, _)
Contacted(waypoints, responses, server) ==
    IF server > Len(routing_services) THEN <<>>
    ELSE LET response == responses[server]
             rest     == Contacted(waypoints, responses, server + 1)
         IN  IF response.raised THEN <<server>> \o rest
             ELSE IF ~WellFormed(response) THEN <<server>> \o rest
             ELSE IF ReturnsMultiple(waypoints, response.routes) THEN <<server>>
             ELSE IF "geometry" \notin DOMAIN response.routes[1]
                  THEN <<server>> \o rest
             ELSE <<server>>

\* dict.get('success') / dict.get('multiple_routes') on a provider result
GetSuccess(route_data) == "success" \in DOMAIN route_data /\ route_data.success

GetMultiple(route_data) ==
    "multiple_routes" \in DOMAIN route_data /\ route_data.multiple_routes

\* One call of get_reliable_route as the histories record it: the step of
\* the calculation that made it, and its waypoints
Request(phase, waypoints) == [ phase |-> phase, waypoints |-> waypoints ]

(***************************************************************************)
(* Natural alternatives (OptimizedRouteEngine._try_osrm_alternatives)      *)
(***************************************************************************)
\* (distance - direct) / direct * 100, in hundredths of a percent
DistanceImpact(distance, direct_distance) ==
    IF direct_distance > 0
    THEN MulDiv(distance - direct_distance, 10000, direct_distance)
    ELSE 0

\* A candidate that replaces the best one when its score is not lower
NotWorse(score, best) == score >= best

\* Line 848 and line 783: the candidate replaces the best one.
Better(score, best_score) == score > best_score

\* Lines 831-861 for alternative number i (1-based; the program's i + 1).
AlternativeCandidate(start, end, blks, route_info, i) ==
    LET route_points    == SwapAll(route_info.geometry.coordinates)
        conflicts       == calculate_route_conflicts(route_points, blks)
        direct_distance == geodesic(start, end)
        scored          == calculate_score(route_info.distance, conflicts, direct_distance)
    IN  [ score |-> scored.score,
          candidate |->
            [ route              |-> route_points,
              distance           |-> route_info.distance,
              duration           |-> route_info.duration,
              success            |-> TRUE,
              service            |-> "OSRM",
              conflicts          |-> conflicts,
              strategy_name      |-> <<"OSRM Natural Alternative", i>>,
              efficiency_score   |-> scored.efficiency_score,
              distance_impact    |-> DistanceImpact(route_info.distance, direct_distance),
              exploration_method |-> "OSRM Natural Alternatives" ] ]

\* What has been scored so far: how many candidates, the highest score, the
\* position of the first candidate that had it, and whether a later candidate
\* had it too.
NoneSeen == [ count |-> 0, max |-> 0, first |-> 0, tied |-> FALSE ]

See(seen, score, i) ==
    IF seen.count = 0 \/ score > seen.max
    THEN [ count |-> seen.count + 1, max |-> score, first |-> i, tied |-> FALSE ]
    ELSE [ seen EXCEPT !.count = @ + 1, !.tied = @ \/ score = seen.max ]

\* The loop of lines 826-866 from alternative i on.  acc holds the loop's
\* best_alternative (a sequence of at most one candidate) and best_score, and
\* what has been scored.
RECURSIVE AlternativesLoop(_, _, _, _, _, _)
AlternativesLoop(start, end, blks, routes, i, acc) ==
    IF i > Len(routes) THEN acc
    ELSE IF "geometry" \notin DOMAIN routes[i]
         THEN \* KeyError, caught at line 865: continue
              AlternativesLoop(start, end, blks, routes, i + 1, acc)
    ELSE LET c == AlternativeCandidate(start, end, blks, routes[i], i)
             seen == See(acc.seen, c.score, i)
         IN  AlternativesLoop(start, end, blks, routes, i + 1,
                 IF Better(c.score, acc.best_score)
                 THEN [ best_alternative |-> <<c.candidate>>,
                        best_score       |-> c.score,
                        seen             |-> seen ]
                 ELSE [ acc EXCEPT !.seen = seen ])

\* Lines 823-866: the state of the loop when it ends (the initial values when
\* the provider did not give a multi-route result).
ScoreAlternatives(start, end, blks, route_data) ==
    LET init == [ best_alternative |-> <<>>, best_score |-> -100, seen |-> NoneSeen ]
    IN  IF GetMultiple(route_data)
        THEN AlternativesLoop(start, end, blks, route_data.routes, 1, init)
        ELSE init

\* A test that takes any scored alternative
AnyAlternative(best_alternative, best_score) == best_alternative # <<>>

\* Line 868: best_alternative and best_score > 50
GoodAlternative(best_alternative, best_score) ==
    best_alternative # <<>> /\ best_score > 5000

(***************************************************************************)
(* One iteration of the exploration loop                                   *)
(* (OptimizedRouteEngine.find_optimal_avoidance_route, lines 746-803)      *)
(***************************************************************************)
\* Lines 761-795: the candidate built from a successful route_data.  The
\* counters total_paths_tested, valid_paths_found and exploration_completeness
\* are display statistics that nothing reads; they are left out.
PathCandidate(start, end, blks, path_combo, route_data) ==
    LET conflicts       == calculate_route_conflicts(route_data.route, blks)
        direct_distance == geodesic(start, end)
        scored          == calculate_score(route_data.distance, conflicts, direct_distance)
    IN  [ score |-> scored.score,
          candidate |->
            [ route            |-> route_data.route,
              distance         |-> route_data.distance,
              duration         |-> route_data.duration,
              success          |-> route_data.success,
              service          |-> route_data.service,
              conflicts        |-> conflicts,
              strategy_name    |-> path_combo.name,
              efficiency_score |-> scored.efficiency_score,
              distance_impact  |-> DistanceImpact(route_data.distance, direct_distance),
              waypoints        |-> path_combo.waypoints ] ]

\* A loop that ends at the first candidate without conflicts
UntilSafe(all_paths, i, best_path) ==
    /\ i <= Len(all_paths)
    /\ IF best_path = <<>> THEN TRUE ELSE best_path[1].conflicts.has_conflicts

\* Line 746, for i, path_combo in enumerate(all_paths): the loop has a
\* combination left (i is 1-based)
LoopContinues(all_paths, i, best_path) == i <= Len(all_paths)

(***************************************************************************)
(* Navigation system (EnhancedNavigationSystem)                            *)
(***************************************************************************)
\* The arguments of add_blockage are floats.  NaN stands for float('nan'),
\* which no comparison holds of: a <= b, a < b are false when a or b is NaN.
NaN == -999999999

FloatLe(a, b) == a # NaN /\ b # NaN /\ a <= b

FloatLt(a, b) == a # NaN /\ b # NaN /\ a < b

\* A test that lets a radius of 0 pass
ZeroRadiusPasses(lat, lon, radius) ==
    /\ FloatLe(-90 * 111000, lat) /\ FloatLe(lat, 90 * 111000)
    /\ FloatLe(-180 * 111000, lon) /\ FloatLe(lon, 180 * 111000)
    /\ ~FloatLt(radius, 0)

\* Lines 49-54 of add_blockage: the arguments are accepted, that is, neither
\*   not (-90 <= lat <= 90) or not (-180 <= lon <= 180)   nor   radius <= 0
ValidBlockage(lat, lon, radius) ==
    /\ FloatLe(-90 * 111000, lat) /\ FloatLe(lat, 90 * 111000)
    /\ FloatLe(-180 * 111000, lon) /\ FloatLe(lon, 180 * 111000)
    /\ ~FloatLe(radius, 0)

Blockage(lat, lon, radius, description) ==
    [ lat |-> lat, lon |-> lon, radius |-> radius, description |-> description ]

\* list.pop(idx) for a 0-based idx
Pop(list, idx) ==
    AsSeq([k \in 1..(Len(list) - 1) |-> IF k <= idx THEN list[k] ELSE list[k + 1]])

\* A direct result that reports the duration as the distance and the
\* distance as the duration
SwappedFields(route_data) ==
    IF ~GetSuccess(route_data)
    THEN [ success |-> FALSE, message |-> "Could not calculate direct route" ]
    ELSE [ success                |-> TRUE,
           route                  |-> route_data.route,
           distance_km            |-> route_data.duration,
           estimated_time_minutes |-> route_data.distance,
           total_waypoints        |-> Len(route_data.route),
           route_type             |-> <<"Direct Route", route_data.service>>,
           method                 |-> <<"Direct routing via", route_data.service>>,
           efficiency_score       |-> 10000,
           blockage_impact        |-> 0,
           service_used           |-> route_data.service ]

\* Lines 71-85: the result of calculate_direct_route for the provider's answer.
calculate_direct_route(route_data) ==
    IF ~GetSuccess(route_data)
    THEN [ success |-> FALSE, message |-> "Could not calculate direct route" ]
    ELSE [ success                |-> TRUE,
           route                  |-> route_data.route,
           distance_km            |-> route_data.distance,
           estimated_time_minutes |-> route_data.duration,
           total_waypoints        |-> Len(route_data.route),
           route_type             |-> <<"Direct Route", route_data.service>>,
           method                 |-> <<"Direct routing via", route_data.service>>,
           efficiency_score       |-> 10000,
           blockage_impact        |-> 0,
           service_used           |-> route_data.service ]

\* Lines 98-100
IgnoredObstacles(direct_route) ==
    [ direct_route EXCEPT
        !.route_type = <<"Direct Route - Obstacles Ignored", direct_route.service_used>> ]

\* An update that sets the label and leaves the conflict report out
LabelOnly(direct_route, conflicts) ==
    [ direct_route EXCEPT
        !.route_type = <<"Direct Route - Verified Safe", direct_route.service_used>> ]

\* Lines 107-111: direct_route.update({...})
VerifiedSafe(direct_route, conflicts) ==
    [ k \in DOMAIN direct_route \cup {"conflicts"} |->
        IF k = "conflicts" THEN conflicts
        ELSE IF k = "route_type"
             THEN <<"Direct Route - Verified Safe", direct_route.service_used>>
        ELSE direct_route[k] ]

\* A label that is "improved" for any percentage below the direct route's
AnyImprovement(avoidance_conflicts, conflict_pct) ==
    IF ~avoidance_conflicts.has_conflicts THEN "Perfect Avoidance Route"
    ELSE IF avoidance_conflicts.conflict_percentage < conflict_pct
         THEN "Improved Avoidance Route"
    ELSE "Partial Avoidance Route"

\* Lines 122-130: the label of an avoidance route
AvoidanceLabel(avoidance_conflicts, conflict_pct) ==
    IF ~avoidance_conflicts.has_conflicts THEN "Perfect Avoidance Route"
    ELSE IF 2 * avoidance_conflicts.conflict_percentage < conflict_pct
         THEN "Improved Avoidance Route"
    ELSE "Partial Avoidance Route"

\* A flag that counts every route of the search as an avoidance success
AlwaysSuccess(avoidance_conflicts) == TRUE

\* Line 148: not avoidance_route['conflicts'].get('has_conflicts', True)
AvoidanceSuccess(avoidance_conflicts) == ~avoidance_conflicts.has_conflicts

\* Lines 119-149: the result built from the route the search returned
AvoidanceResult(avoidance_route, direct_route, conflicts) ==
    [ success                |-> TRUE,
      route                  |-> avoidance_route.route,
      distance_km            |-> avoidance_route.distance,
      estimated_time_minutes |-> avoidance_route.duration,
      blockage_impact        |-> Abs(avoidance_route.distance_impact),
      total_waypoints        |-> Len(avoidance_route.route),
      route_type             |-> << AvoidanceLabel(avoidance_route.conflicts,
                                                  conflicts.conflict_percentage),
                                    avoidance_route.service >>,
      method                 |-> <<"Strong avoidance via", avoidance_route.service>>,
      conflicts              |-> avoidance_route.conflicts,
      waypoints              |-> IF "waypoints" \in DOMAIN avoidance_route
                                 THEN avoidance_route.waypoints ELSE <<>>,
      efficiency_score       |-> avoidance_route.efficiency_score,
      original_distance      |-> direct_route.distance_km,
      original_duration      |-> direct_route.estimated_time_minutes,
      strategy_name          |-> avoidance_route.strategy_name,
      service_used           |-> avoidance_route.service,
      avoidance_success      |-> AvoidanceSuccess(avoidance_route.conflicts) ]

\* A fallback that is a failure of the call
FailedFallback(direct, report) ==
    [ success |-> FALSE, message |-> "FALLBACK - Avoidance system failed" ]

\* Lines 154-169: the dangerous fallback
FallbackResult(direct_route, conflicts) ==
    [ success                |-> TRUE,
      route                  |-> direct_route.route,
      distance_km            |-> direct_route.distance_km,
      estimated_time_minutes |-> direct_route.estimated_time_minutes,
      blockage_impact        |-> conflicts.conflict_percentage,
      total_waypoints        |-> Len(direct_route.route),
      route_type             |-> << "DANGEROUS ROUTE - OBSTACLES NOT AVOIDED",
                                    direct_route.service_used >>,
      method                 |-> "FALLBACK - Avoidance system failed",
      conflicts              |-> conflicts,
      efficiency_score       |-> 0,
      warning                |-> << "CRITICAL: Route passes through",
                                    Len(conflicts.conflict_points), "obstacle areas" >>,
      service_used           |-> direct_route.service_used,
      avoidance_success      |-> FALSE,
      danger_level           |-> "HIGH" ]

\* Lines 119-169: avoidance_route is a sequence of at most one route (None = <<>>)
FinalResult(avoidance_route, direct_route, conflicts) ==
    IF avoidance_route # <<>>
    THEN AvoidanceResult(avoidance_route[1], direct_route, conflicts)
    ELSE FallbackResult(direct_route, conflicts)

(***************************************************************************)
(* The environment: the requests of the caller and the answers of the      *)
(* routing service                                                         *)
(***************************************************************************)
MaxBlockages == 1
MaxRoutes == 2
BypassOffset == 2000

\* (19.10, 72.85), and the end points (19.12, 72.90), a point 2 km away and
\* the start itself
Start == <<2120100, 8086350>>
Ends == { <<2122320, 8091900>>, <<2121977, 8087085>>, Start }

\* add_blockage arguments: the default position of the form and a position
\* outside the coordinate range; radii of the slider's range and rejected ones
Lats == { 2121258, 9990001 }
Lons == { 8086804, -19980001 }
Radii == { 1000, 2000, 0, -500 }

Polyline(points) ==
    SumSeq(AsSeq([k \in 1..(Len(points) - 1) |-> geodesic(points[k], points[k + 1])]))

\* A road that leaves the first point sideways, runs parallel to the straight
\* road and comes back to the last point
Bypass(points, offset) ==
    << points[1] >>
    \o AsSeq([k \in 1..Len(points) |-> << points[k][1] + offset, points[k][2] >>])
    \o << points[Len(points)] >>

RouteKinds == { "main", "north", "south", "no_geometry" }

\* One entry of the 'routes' list of the service's JSON body: length in
\* metres, duration in seconds at 30 km/h, GeoJSON [lon, lat] coordinates
ServiceRoute(kind, start, end, waypoints) ==
    LET through == AllPoints(start, end, waypoints)
        points  == CASE kind = "north" -> Bypass(through, BypassOffset)
                     [] kind = "south" -> Bypass(through, -BypassOffset)
                     [] OTHER          -> through
        distance == Polyline(points)
    IN  IF kind = "no_geometry"
        THEN [ distance |-> distance, duration |-> MulDiv(distance, 12, 100) ]
        ELSE [ distance |-> distance, duration |-> MulDiv(distance, 12, 100),
               geometry |-> [ coordinates |-> SwapAll(points) ] ]

\* The lists of kinds the service may answer with: one route, or up to
\* MaxRoutes different routes in any order
KindLists ==
    { l \in UNION { [1..n -> RouteKinds] : n \in 1..MaxRoutes } :
        \A a, b \in DOMAIN l : a # b => l[a] # l[b] }

Routes(kinds, start, end, waypoints) ==
    AsSeq([k \in 1..Len(kinds) |-> ServiceRoute(kinds[k], start, end, waypoints)])

\* Every answer of one mirror: each way of failing and each route list
Responses(start, end, waypoints) ==
    { Raised,
      Answer(503, "Ok", Routes(<<"main">>, start, end, waypoints)),
      Answer(200, "NoRoute", <<>>),
      Answer(200, "Ok", <<>>) }
    \cup { Answer(200, "Ok", Routes(l, start, end, waypoints)) : l \in KindLists }

\* The answers the mirrors give while a route calculation runs: a mirror is
\* unreachable or answers well-formed, with alternatives only where the
\* service has them (requests without waypoints)
SystemResponses(start, end, waypoints) ==
    { Raised }
    \cup { Answer(200, "Ok", Routes(l, start, end, waypoints)) :
             l \in { m \in KindLists :
                       IF waypoints = <<>>
                       THEN Len(m) > 1 \/ m[1] \in {"main", "no_geometry"}
                       ELSE m = <<"main">> } }

\* Every result get_reliable_route can return for a request
ProviderResults(start, end, waypoints) ==
    LET responses == SystemResponses(start, end, waypoints)
    IN  { get_reliable_route(start, end, waypoints, rs) :
            rs \in [1..Len(routing_services) -> responses] }

(***************************************************************************)
(* The system: the navigation system's blockage list and one route         *)
(* calculation at a time, as the interface runs them.  A value that may be *)
(* None is a sequence of at most one element.                              *)
(***************************************************************************)
VARIABLES
    blockages,        \* EnhancedNavigationSystem.blockages
    pc,               \* where the calculation stands
    request,          \* the call in progress and its arguments
    route_data,       \* calculate_direct_route: the provider's answer
    direct_route,     \* calculate_optimal_route: direct_route
    conflicts,        \* calculate_optimal_route: conflicts (of the direct route)
    alt_route_data,   \* _try_osrm_alternatives: route_data
    best_alternative, \* _try_osrm_alternatives: best_alternative
    all_paths,        \* find_optimal_avoidance_route: all_paths
    i,                \* find_optimal_avoidance_route: position in all_paths (1-based)
    best_path,        \* find_optimal_avoidance_route: best_path
    best_score,       \* best_score of the loop that runs
    avoidance_route,  \* calculate_optimal_route: avoidance_route
    result,           \* the value the call returns
    seen,             \* history: what the running loop has scored
    requests,         \* history: the provider requests of the call, in order
    snapshot,         \* history: the blockage list when the call started
    held,             \* find_optimal_avoidance_route: the list object 'blockages'
    shared,           \* ... and whether self.blockages still is that object
    args,             \* a single operation under study: its arguments
    ret               \* ... and its return value

vars == << blockages, pc, request, route_data, direct_route, conflicts,
           alt_route_data, best_alternative, all_paths, i, best_path, best_score,
           avoidance_route, result, seen, requests, snapshot, held, shared,
           args, ret >>

search_vars == << alt_route_data, best_alternative, all_paths, i, best_path, best_score,
                  avoidance_route, seen >>

\* The list the search reads and the histories of the call
call_vars == << requests, snapshot, held, shared >>

NoRequest == [ op |-> "", start |-> <<>>, end |-> <<>>, show_direct |-> FALSE ]

Idle ==
    /\ pc = "idle"
    /\ request = NoRequest
    /\ route_data = <<>>
    /\ direct_route = <<>>
    /\ conflicts = <<>>
    /\ alt_route_data = <<>>
    /\ best_alternative = <<>>
    /\ all_paths = <<>>
    /\ i = 0
    /\ best_path = <<>>
    /\ best_score = 0
    /\ avoidance_route = <<>>
    /\ result = <<>>
    /\ seen = NoneSeen
    /\ requests = <<>>
    /\ snapshot = <<>>
    /\ held = <<>>
    /\ shared = FALSE

Init ==
    /\ blockages = <<>>
    /\ Idle
    /\ args = <<>>
    /\ ret = <<>>

\* add_blockage(lat, lon, radius, description)
add_blockage(lat, lon, radius, description) ==
    /\ pc = "idle"
    /\ IF ValidBlockage(lat, lon, radius)
       THEN /\ Len(blockages) < MaxBlockages
            /\ blockages' = Append(blockages, Blockage(lat, lon, radius, description))
       ELSE blockages' = blockages
    /\ UNCHANGED << pc, request, route_data, direct_route, conflicts, result,
                    search_vars, call_vars, args, ret >>

\* The interface's remove button: nav_system.blockages.pop(idx)
remove_blockage(idx) ==
    /\ pc = "idle"
    /\ idx \in 0..(Len(blockages) - 1)
    /\ blockages' = Pop(blockages, idx)
    /\ UNCHANGED << pc, request, route_data, direct_route, conflicts, result,
                    search_vars, call_vars, args, ret >>

clear_blockages ==
    /\ pc = "idle"
    /\ blockages' = <<>>
    /\ UNCHANGED << pc, request, route_data, direct_route, conflicts, result,
                    search_vars, call_vars, args, ret >>

\* calculate_direct_route(start, end) called by the interface
DirectCall(start, end) ==
    /\ pc = "idle"
    /\ \E answer \in ProviderResults(start, end, <<>>) :
          /\ route_data' = <<answer>>
          /\ result' = << calculate_direct_route(answer) >>
          /\ requests' = << Request("direct", <<>>) >>
    /\ pc' = "done"
    /\ request' = [ op |-> "calculate_direct_route", start |-> <<start>>,
                    end |-> <<end>>, show_direct |-> FALSE ]
    /\ UNCHANGED << blockages, direct_route, conflicts, search_vars, snapshot,
                    held, shared, args, ret >>

\* calculate_optimal_route, lines 89-90: a location is missing
OptimalInvalid(start, end, show_direct) ==
    /\ pc = "idle"
    /\ start = <<>> \/ end = <<>>
    /\ pc' = "done"
    /\ request' = [ op |-> "calculate_optimal_route", start |-> start,
                    end |-> end, show_direct |-> show_direct ]
    /\ result' = << [ success |-> FALSE, message |-> "Invalid start or end location" ] >>
    /\ UNCHANGED << blockages, route_data, direct_route, conflicts, search_vars,
                    call_vars, args, ret >>

\* calculate_optimal_route, lines 92-117: up to the call of the search
OptimalBegin(start, end, show_direct) ==
    /\ pc = "idle"
    /\ request' = [ op |-> "calculate_optimal_route", start |-> <<start>>,
                    end |-> <<end>>, show_direct |-> show_direct ]
    /\ \E answer \in ProviderResults(start, end, <<>>) :
          LET direct == calculate_direct_route(answer)
              report == calculate_route_conflicts(direct.route, blockages)
          IN  /\ route_data' = <<answer>>
              /\ requests' = << Request("direct", <<>>) >>
              /\ IF ~direct.success
                 THEN /\ pc' = "done"
                      /\ result' = <<direct>>
                      /\ UNCHANGED << direct_route, conflicts, held, shared >>
                 ELSE IF show_direct \/ blockages = <<>>
                 THEN /\ pc' = "done"
                      /\ result' = << IF show_direct THEN IgnoredObstacles(direct)
                                      ELSE direct >>
                      /\ direct_route' = <<direct>>
                      /\ UNCHANGED << conflicts, held, shared >>
                 ELSE IF ~report.has_conflicts
                 THEN /\ pc' = "done"
                      /\ result' = << VerifiedSafe(direct, report) >>
                      /\ direct_route' = <<direct>>
                      /\ conflicts' = <<report>>
                      /\ UNCHANGED << held, shared >>
                 ELSE \* line 117: the search receives the list object itself
                      /\ pc' = "try_alternatives"
                      /\ direct_route' = <<direct>>
                      /\ conflicts' = <<report>>
                      /\ held' = blockages
                      /\ shared' = TRUE
                      /\ UNCHANGED result
    /\ snapshot' = blockages
    /\ UNCHANGED << blockages, search_vars, args, ret >>

\* The call returns from find_optimal_avoidance_route with found (a sequence
\* of at most one route): lines 117-169 of calculate_optimal_route
ReturnFromSearch(found) ==
    /\ avoidance_route' = found
    /\ result' = << FinalResult(found, direct_route[1], conflicts[1]) >>
    /\ pc' = "done"

\* _try_osrm_alternatives, lines 821-866: the request for the direct pair
\* and the scoring of the alternatives it brings
TryAlternatives ==
    /\ pc = "try_alternatives"
    /\ \E answer \in ProviderResults(request.start[1], request.end[1], <<>>) :
          LET loop == ScoreAlternatives(request.start[1], request.end[1],
                                        held, answer)
          IN  /\ alt_route_data' = <<answer>>
              /\ best_alternative' = loop.best_alternative
              /\ best_score' = loop.best_score
              /\ seen' = loop.seen
              /\ requests' = Append(requests, Request("alternatives", <<>>))
    /\ pc' = "alternatives_scored"
    /\ UNCHANGED << blockages, request, route_data, direct_route, conflicts,
                    all_paths, i, best_path, avoidance_route, result,
                    snapshot, held, shared, args, ret >>

\* Lines 868-870 and 723-724: a good natural alternative ends the search
ReturnAlternative ==
    /\ pc = "alternatives_scored"
    /\ GoodAlternative(best_alternative, best_score)
    /\ ReturnFromSearch(best_alternative)
    /\ alt_route_data' = <<>>
    /\ UNCHANGED << blockages, request, route_data, direct_route, conflicts,
                    best_alternative, all_paths, i, best_path, best_score,
                    seen, call_vars, args, ret >>

\* Lines 872 and 726-744: no good alternative; the network is built, the
\* combinations are listed and the exploration loop is set up
BeginExploration ==
    /\ pc = "alternatives_scored"
    /\ ~GoodAlternative(best_alternative, best_score)
    /\ LET start == request.start[1]
           end   == request.end[1]
           path_network == build_comprehensive_network(start, end, held)
       IN  all_paths' = explore_all_path_combinations(start, end, path_network,
                                                      held)
    /\ alt_route_data' = <<>>
    /\ best_alternative' = <<>>
    /\ best_path' = <<>>
    /\ best_score' = -100
    /\ i' = 1
    /\ seen' = NoneSeen
    /\ pc' = "explore"
    /\ UNCHANGED << blockages, request, route_data, direct_route, conflicts,
                    avoidance_route, result, call_vars, args, ret >>

\* One iteration of the loop of lines 746-803
ExploreStep ==
    /\ pc = "explore"
    /\ LoopContinues(all_paths, i, best_path)
    /\ \E answer \in ProviderResults(request.start[1], request.end[1],
                                     all_paths[i].waypoints) :
          /\ requests' = Append(requests,
                                Request("explore", all_paths[i].waypoints))
          /\ IF GetSuccess(answer)
             THEN LET c == PathCandidate(request.start[1], request.end[1],
                                         held, all_paths[i], answer)
                  IN  /\ seen' = See(seen, c.score, i)
                      /\ IF Better(c.score, best_score)
                         THEN /\ best_score' = c.score
                              /\ best_path' = << c.candidate >>
                         ELSE UNCHANGED << best_score, best_path >>
             ELSE UNCHANGED << seen, best_score, best_path >>
    /\ i' = i + 1
    /\ UNCHANGED << blockages, pc, request, route_data, direct_route, conflicts,
                    alt_route_data, best_alternative, all_paths, avoidance_route,
                    result, snapshot, held, shared, args, ret >>

\* An end of the loop that empties the caller's list
ConsumingFinish ==
    /\ pc = "explore"
    /\ ~LoopContinues(all_paths, i, best_path)
    /\ ReturnFromSearch(best_path)
    /\ blockages' = <<>>
    /\ UNCHANGED << request, route_data, direct_route, conflicts,
                    alt_route_data, best_alternative, all_paths, i, best_path, best_score,
                    seen, call_vars, args, ret >>

\* Lines 805-816: the loop is over and best_path is returned
FinishExploration ==
    /\ pc = "explore"
    /\ ~LoopContinues(all_paths, i, best_path)
    /\ ReturnFromSearch(best_path)
    /\ UNCHANGED << blockages, request, route_data, direct_route, conflicts,
                    alt_route_data, best_alternative, all_paths, i, best_path, best_score,
                    seen, call_vars, args, ret >>

\* The caller has taken the result; the locals of the call are gone
Return ==
    /\ pc = "done"
    /\ pc' = "idle"
    /\ request' = NoRequest
    /\ route_data' = <<>>
    /\ direct_route' = <<>>
    /\ conflicts' = <<>>
    /\ alt_route_data' = <<>>
    /\ best_alternative' = <<>>
    /\ all_paths' = <<>>
    /\ i' = 0
    /\ best_path' = <<>>
    /\ best_score' = 0
    /\ avoidance_route' = <<>>
    /\ result' = <<>>
    /\ seen' = NoneSeen
    /\ requests' = <<>>
    /\ snapshot' = <<>>
    /\ held' = <<>>
    /\ shared' = FALSE
    /\ UNCHANGED << blockages, args, ret >>

Next ==
    \/ \E lat \in Lats, lon \in Lons, radius \in Radii :
          add_blockage(lat, lon, radius, "Road closure")
    \/ \E idx \in 0..(MaxBlockages - 1) : remove_blockage(idx)
    \/ clear_blockages
    \/ \E end \in Ends : DirectCall(Start, end)
    \/ \E start \in {<<>>, <<Start>>}, end \in {<<>>} \cup {<<e>> : e \in Ends},
          show_direct \in BOOLEAN :
          OptimalInvalid(start, end, show_direct)
    \/ \E end \in Ends, show_direct \in BOOLEAN : OptimalBegin(Start, end, show_direct)
    \/ TryAlternatives
    \/ ReturnAlternative
    \/ BeginExploration
    \/ ExploreStep
    \/ FinishExploration
    \/ Return

Spec == Init /\ [][Next]_vars

(***************************************************************************)
(* The caller changes the blockage list while calculate_optimal_route      *)
(* runs (another thread that holds the navigation system).  The call reads *)
(* self.blockages at lines 97, 103 and 117 and hands the list object       *)
(* itself to find_optimal_avoidance_route; the steps of the search are the *)
(* points where the other thread gets to run.                              *)
(***************************************************************************)
InFlight == pc \in {"try_alternatives", "alternatives_scored", "explore"}

in_flight_unchanged ==
    << pc, request, route_data, direct_route, conflicts, result, search_vars,
       requests, snapshot, args, ret >>

\* add_blockage, line 57: self.blockages.append changes the list object,
\* which the search holds as long as self.blockages was not rebound
AddInFlight(lat, lon, radius, description) ==
    /\ InFlight
    /\ ValidBlockage(lat, lon, radius)
    /\ Len(blockages) < MaxBlockages
    /\ blockages' = Append(blockages, Blockage(lat, lon, radius, description))
    /\ held' = IF shared THEN blockages' ELSE held
    /\ UNCHANGED << shared, in_flight_unchanged >>

\* nav_system.blockages.pop(idx) changes the list object as well
RemoveInFlight(idx) ==
    /\ InFlight
    /\ idx \in 0..(Len(blockages) - 1)
    /\ blockages' = Pop(blockages, idx)
    /\ held' = IF shared THEN blockages' ELSE held
    /\ UNCHANGED << shared, in_flight_unchanged >>

\* clear_blockages, line 62: self.blockages = [] binds a new list; the
\* search keeps the old one
ClearInFlight ==
    /\ InFlight
    /\ shared
    /\ blockages' = <<>>
    /\ shared' = FALSE
    /\ UNCHANGED << held, in_flight_unchanged >>

\* The end point 2 km from the start, and the radii the caller chooses
\* here: one that covers start and end, and a rejected one
NearEnd == <<2121977, 8087085>>
WideRadii == { 2000, 0 }

NextConcurrent ==
    \/ \E lat \in Lats, lon \in Lons, radius \in WideRadii :
          add_blockage(lat, lon, radius, "Road closure")
    \/ \E idx \in 0..(MaxBlockages - 1) : remove_blockage(idx)
    \/ clear_blockages
    \/ OptimalBegin(Start, NearEnd, FALSE)
    \/ TryAlternatives
    \/ ReturnAlternative
    \/ BeginExploration
    \/ ExploreStep
    \/ FinishExploration
    \/ Return
    \/ \E lat \in Lats, lon \in Lons, radius \in WideRadii :
          AddInFlight(lat, lon, radius, "Road closure")
    \/ \E idx \in 0..(MaxBlockages - 1) : RemoveInFlight(idx)
    \/ ClearInFlight

SpecConcurrent == Init /\ [][NextConcurrent]_vars

(***************************************************************************)
(* Single operations of the engine, each applied once to arguments drawn   *)
(* from a bounded set.  The navigation system stays idle.                  *)
(***************************************************************************)
MaxListed == 2
MaxNodes == 12

system_vars == << blockages, pc, request, route_data, direct_route, conflicts,
                  result, requests, snapshot, held, shared >>

Quiet == blockages = <<>> /\ Idle /\ ret = <<>>

FarEnd == <<2122320, 8091900>>

\* Blockage centres: the form's default position, the middle of the road to
\* FarEnd, and a point 1.4 km from the first
Centres == { <<2121258, 8086804>>, <<2121210, 8089125>>, <<2122500, 8087500>> }

ListedBlockages ==
    { Blockage(c[1], c[2], r, "Road closure") : c \in Centres, r \in {500, 1000, 2000} }

BlockageLists == UNION { [1..n -> ListedBlockages] : n \in 0..MaxListed }

\* --- add_blockage, the remove button, clear_blockages ---
\* Arguments of every kind: the ends and the inside of the ranges, values
\* just outside, and NaN
AnyLats == { -90 * 111000, 0, 2121258, 90 * 111000, 90 * 111000 + 1, -90 * 111000 - 1, NaN }
AnyLons == { -180 * 111000, 0, 8086804, 180 * 111000, 180 * 111000 + 1, -19980001, NaN }
AnyRadii == { 1, 1000, 3000, 0, -500, NaN }
Descriptions == { "Road closure", "" }

NextBlockages ==
    \/ \E lat \in AnyLats, lon \in AnyLons, radius \in AnyRadii, d \in Descriptions :
          add_blockage(lat, lon, radius, d)
    \/ \E idx \in 0..(MaxBlockages - 1) : remove_blockage(idx)
    \/ clear_blockages

SpecBlockages == Init /\ [][NextBlockages]_vars

\* --- add_blockage, the remove button, clear_blockages, one call at a time:
\* args keeps the call and the list before it ---
ListLats == Lats \cup { NaN }
ListLons == Lons \cup { NaN }
ListRadii == Radii \cup { NaN }

list_unchanged ==
    << pc, request, route_data, direct_route, conflicts, result, search_vars,
       call_vars, ret >>

\* add_blockage(lat, lon, radius, description), lines 47-58
ListAdd(lat, lon, radius, description) ==
    /\ pc = "idle"
    /\ IF ValidBlockage(lat, lon, radius)
       THEN /\ Len(blockages) < MaxListed
            /\ blockages' = Append(blockages, Blockage(lat, lon, radius, description))
       ELSE blockages' = blockages
    /\ args' = [ op |-> "add_blockage", lat |-> lat, lon |-> lon, radius |-> radius,
                 description |-> description, before |-> blockages ]
    /\ UNCHANGED list_unchanged

\* nav_system.blockages.pop(idx)
ListRemove(idx) ==
    /\ pc = "idle"
    /\ idx \in 0..(Len(blockages) - 1)
    /\ blockages' = Pop(blockages, idx)
    /\ args' = [ op |-> "remove", idx |-> idx, before |-> blockages ]
    /\ UNCHANGED list_unchanged

\* clear_blockages(), lines 60-63
ListClear ==
    /\ pc = "idle"
    /\ blockages' = <<>>
    /\ args' = [ op |-> "clear_blockages", before |-> blockages ]
    /\ UNCHANGED list_unchanged

NextList ==
    \/ \E lat \in ListLats, lon \in ListLons, radius \in ListRadii :
          ListAdd(lat, lon, radius, "Road closure")
    \/ \E idx \in 0..(MaxListed - 1) : ListRemove(idx)
    \/ ListClear

SpecList == Init /\ [][NextList]_vars

\* --- get_reliable_route ---
WaypointLists ==
    { <<>>, << <<2122758, 8086804>> >>, << <<2122758, 8086804>>, <<2123000, 8090000>> >> }

InitProvider ==
    /\ Quiet
    /\ args \in UNION { { [ start |-> Start, end |-> e, waypoints |-> w, responses |-> rs ] :
                            rs \in [1..Len(routing_services) -> Responses(Start, e, w)] } :
                        e \in {FarEnd, Start}, w \in WaypointLists }

ProviderCall ==
    /\ ret = <<>>
    /\ ret' = <<
        get_reliable_route(args.start, args.end, args.waypoints, args.responses) >>
    /\ UNCHANGED << system_vars, search_vars, args >>

NextProvider == ProviderCall

SpecProvider == InitProvider /\ [][NextProvider]_vars

\* --- get_reliable_route, called twice for one request ---
\* What a mirror may do at each call: fail in each way, or answer
MirrorOutcomes(start, end, waypoints) ==
    { Raised,
      Answer(503, "Ok", Routes(<<"main">>, start, end, waypoints)),
      Answer(200, "Ok", <<>>),
      Answer(200, "Ok", Routes(<<"no_geometry">>, start, end, waypoints)),
      Answer(200, "Ok", Routes(<<"main">>, start, end, waypoints)),
      Answer(200, "Ok", Routes(<<"north", "main">>, start, end, waypoints)) }

InitRepeat ==
    /\ Quiet
    /\ args \in { [ start |-> Start, end |-> e, waypoints |-> w ] :
                    e \in {FarEnd, Start}, w \in WaypointLists }

\* One call; ret keeps what the mirrors did, which of them the call asked
\* and what it returned
RepeatCall ==
    /\ Len(ret) < 2
    /\ \E rs \in [1..Len(routing_services) ->
                     MirrorOutcomes(args.start, args.end, args.waypoints)] :
          ret' = Append(ret,
                    [ responses |-> rs,
                      contacted |-> Contacted(args.waypoints, rs, 1),
                      result    |-> get_reliable_route(args.start, args.end,
                                                       args.waypoints, rs) ])
    /\ UNCHANGED << system_vars, search_vars, args >>

NextRepeat == RepeatCall

SpecRepeat == InitRepeat /\ [][NextRepeat]_vars

\* --- calculate_route_conflicts ---
Paths ==
    { <<>>,
      << Start >>,
      << Start, Start >>,
      << <<2121258, 8086804>>, <<2121258, 8086804>> >>,
      << Start, FarEnd >>,
      << Start, Start, FarEnd, FarEnd >>,
      << Start, <<2123258, 8086804>>, FarEnd >>,
      create_realistic_route(Start, FarEnd, <<>>).route }

InitConflicts ==
    /\ Quiet
    /\ args \in { [ route |-> r, blockages |-> l ] : r \in Paths, l \in BlockageLists }

ConflictsCall ==
    /\ ret = <<>>
    /\ ret' = <<
        calculate_route_conflicts(args.route, args.blockages) >>
    /\ UNCHANGED << system_vars, search_vars, args >>

NextConflicts == ConflictsCall

SpecConflicts == InitConflicts /\ [][NextConflicts]_vars

\* --- RoutePath.calculate_score ---
\* Route lengths and straight-line distances in metres, conflict percentages
\* in hundredths of a percent
TotalDistances == { 0, 1, 2000, 5695, 5709, 9695, 14300, 17000, 30000 }
DirectDistances == { 0, 2000, 5695 }
Percentages == { 1, 50, 499, 500, 4263, 10000 }

InitScore ==
    /\ Quiet
    /\ args \in [ total_distance      : TotalDistances,
                  direct_distance     : DirectDistances,
                  conflict_percentage : Percentages ]

\* The conflict report of a conflict-free candidate and of one that differs
\* only in having conflicts
FreeReport == [ has_conflicts |-> FALSE, conflict_percentage |-> 0 ]

HitReport(conflict_percentage) ==
    [ has_conflicts |-> TRUE, conflict_percentage |-> conflict_percentage ]

ScoreCall ==
    /\ ret = <<>>
    /\ ret' = <<
        [ free |-> calculate_score(args.total_distance, FreeReport,
        args.direct_distance).score,
        hit  |-> calculate_score(args.total_distance,
        HitReport(args.conflict_percentage),
        args.direct_distance).score ] >>
    /\ UNCHANGED << system_vars, search_vars, args >>

NextScore == ScoreCall

SpecScore == InitScore /\ [][NextScore]_vars

\* --- _build_comprehensive_network ---
InitNetwork ==
    /\ Quiet
    /\ args \in { [ start |-> Start, end |-> FarEnd, blockages |-> l ] :
                    l \in BlockageLists }

NetworkCall ==
    /\ ret = <<>>
    /\ ret' = <<
        build_comprehensive_network(args.start, args.end, args.blockages) >>
    /\ UNCHANGED << system_vars, search_vars, args >>

NextNetwork == NetworkCall

SpecNetwork == InitNetwork /\ [][NextNetwork]_vars

\* --- _explore_all_path_combinations ---
\* Networks: the first n nodes of the network around one blockage
Networks ==
    LET network == build_comprehensive_network(Start, FarEnd,
                       << Blockage(2121258, 8086804, 1000, "Road closure") >>)
    IN  { SubSeq(network, 1, n) : n \in 0..MaxNodes }

ExplorerBlockages ==
    { Blockage(2121258, 8086804, r, "Road closure") : r \in {1000, 1500, 2000} }

InitExplorer ==
    /\ Quiet
    /\ args \in { [ start |-> Start, end |-> e, network |-> n, blockages |-> l ] :
                    e \in Ends, n \in Networks,
                    l \in UNION { [1..k -> ExplorerBlockages] : k \in 0..MaxListed } }

ExplorerCall ==
    /\ ret = <<>>
    /\ ret' = <<
        explore_all_path_combinations(args.start, args.end, args.network,
        args.blockages) >>
    /\ UNCHANGED << system_vars, search_vars, args >>

NextExplorer == ExplorerCall

SpecExplorer == InitExplorer /\ [][NextExplorer]_vars

\* --- calculate_optimal_route, lines 119-149: the result for a route that
\* the search returned ---
\* Conflict percentages of the returned route and of the direct route, in
\* hundredths of a percent
AvoidancePercentages == { 0, 1, 2499, 2500, 2501, 4999, 5000, 5001, 9999, 10000 }
DirectPercentages == { 0, 1, 2, 5000, 9999, 10000 }

\* The route the search returns, with the given conflict report: a road
\* from Start to FarEnd through one waypoint
FoundRoute(report) ==
    [ route            |-> << Start, <<2122758, 8086804>>, FarEnd >>,
      distance         |-> 8000,
      duration         |-> 960,
      success          |-> TRUE,
      service          |-> "OSRM",
      conflicts        |-> report,
      strategy_name    |-> <<"Single WP", <<"WP_B", 1, 15, 0>>>>,
      efficiency_score |-> 7118,
      distance_impact  |-> 4047,
      waypoints        |-> << <<2122758, 8086804>> >> ]

InitLabel ==
    /\ Quiet
    /\ args \in [ avoidance : {FreeReport} \cup { HitReport(p) : p \in AvoidancePercentages },
                  direct    : { HitReport(p) : p \in DirectPercentages } ]

LabelCall ==
    /\ ret = <<>>
    /\ ret' = <<
        AvoidanceResult(FoundRoute(args.avoidance),
        calculate_direct_route(create_realistic_route(Start, FarEnd, <<>>)),
        args.direct) >>
    /\ UNCHANGED << system_vars, search_vars, args >>

NextLabel == LabelCall

SpecLabel == InitLabel /\ [][NextLabel]_vars

(***************************************************************************)
(* Properties of a route calculation                                       *)
(***************************************************************************)
Returned(op) == pc = "done" /\ request.op = op

\* The provider's answer holds a route for the pair: its own single route or
\* at least one usable alternative.
RouteAvailable(answer) ==
    \/ GetSuccess(answer)
    \/ /\ GetMultiple(answer)
       /\ \E k \in 1..Len(answer.routes) : "geometry" \in DOMAIN answer.routes[k]

\* The search was called (line 117): the direct route had conflicts.
SearchCalled ==
    /\ Returned("calculate_optimal_route")
    /\ conflicts # <<>>
    /\ conflicts[1].has_conflicts

Dangerous(r) == "danger_level" \in DOMAIN r

\* C1: calculate_direct_route and calculate_optimal_route report
\* success = false only when the provider yielded no route for the direct
\* request: whenever the provider's answer holds a route (from one mirror,
\* as one of several alternatives, or synthetic) the call returns
\* success = true.
C1_FailsOnlyWithoutRoute ==
    (pc = "done" /\ route_data # <<>> /\ RouteAvailable(route_data[1]))
        => result[1].success

\* C3: the dangerous fallback is returned only when no candidate exists: if
\* at least one combination's route was obtained and scored, the result is
\* not the dangerous fallback.
C3_FallbackOnlyWithoutCandidates ==
    (SearchCalled /\ Dangerous(result[1])) => seen.count = 0

\* C4: when the direct route has conflicts and the search returns None, the
\* call returns success = true with the direct route's points, distance and
\* duration, the direct route's conflict report, avoidance_success = false
\* and a warning; never a failure nor an empty route.
C4_FallbackIsDirectRoute ==
    (SearchCalled /\ avoidance_route = <<>>) =>
        /\ result[1].success
        /\ result[1].route = direct_route[1].route
        /\ result[1].route # <<>>
        /\ result[1].distance_km = direct_route[1].distance_km
        /\ result[1].estimated_time_minutes = direct_route[1].estimated_time_minutes
        /\ result[1].conflicts = conflicts[1]
        /\ "avoidance_success" \in DOMAIN result[1]
        /\ ~result[1].avoidance_success
        /\ "warning" \in DOMAIN result[1]

C4_Witness ==
    /\ SearchCalled
    /\ avoidance_route = <<>>
    /\ Dangerous(result[1])
    /\ Len(result[1].conflicts.conflict_points) > 0

\* C5: every result returned after the direct route was found to have
\* conflicts carries avoidance_success, and it is true exactly when the
\* returned route's own conflict report has has_conflicts = false.
C5_AvoidanceFlagIsHonest ==
    SearchCalled =>
        /\ "avoidance_success" \in DOMAIN result[1]
        /\ result[1].avoidance_success <=> ~result[1].conflicts.has_conflicts

\* A returned avoidance route that still crosses a blockage
C5_Witness ==
    /\ SearchCalled
    /\ avoidance_route # <<>>
    /\ result[1].conflicts.has_conflicts
    /\ result[1].route = avoidance_route[1].route
    /\ ~result[1].avoidance_success

\* C10: when a loop holds a best candidate, it is the first candidate, in
\* list order, whose score is the highest of all the scores evaluated so
\* far; this holds after every iteration of the exploration loop and at the
\* end of the alternatives loop.
C10_FirstSeenWins ==
    /\ (pc = "explore" /\ best_path # <<>>) =>
          /\ best_score = seen.max
          /\ best_path[1].strategy_name = all_paths[seen.first].name
          /\ best_path[1].waypoints = all_paths[seen.first].waypoints
    /\ (pc = "alternatives_scored" /\ best_alternative # <<>>) =>
          /\ best_score = seen.max
          /\ best_alternative[1].strategy_name = <<"OSRM Natural Alternative", seen.first>>

\* The exploration loop has ended with a best candidate that a later
\* candidate equalled
C10_Witness ==
    /\ pc = "explore"
    /\ i > Len(all_paths)
    /\ best_path # <<>>
    /\ seen.tied
    /\ seen.first < Len(all_paths)

(***************************************************************************)
(* Properties of single operations                                         *)
(***************************************************************************)
\* One mirror's request fails: an exception, a status other than 200, a
\* body without code "Ok" or with no routes, or a route without geometry
\* where a single route is to be returned.
MirrorFails(response, waypoints) ==
    \/ response.raised
    \/ response.status_code # 200
    \/ response.code # "Ok"
    \/ response.routes = <<>>
    \/ /\ ~ReturnsMultiple(waypoints, response.routes)
       /\ "geometry" \notin DOMAIN response.routes[1]

AllMirrorsFail ==
    \A server \in 1..Len(routing_services) :
        MirrorFails(args.responses[server], args.waypoints)

\* C2: when every mirror request fails, get_reliable_route returns the
\* synthetic route, with success = true and service = "Offline", for every
\* start, end and waypoint list.
C2_NeverFails ==
    (ret # <<>> /\ AllMirrorsFail) =>
        /\ GetSuccess(ret[1])
        /\ ret[1].service = "Offline"
        /\ ret[1].route # <<>>
        /\ ret[1] = create_realistic_route(args.start, args.end, args.waypoints)

\* Both mirrors failed in different ways, the second with a route that has
\* no geometry, on a request with waypoints
C2_Witness ==
    /\ ret # <<>>
    /\ AllMirrorsFail
    /\ args.waypoints # <<>>
    /\ args.responses[1].raised
    /\ ~args.responses[2].raised
    /\ WellFormed(args.responses[2])
    /\ ret[1].service = "Offline"

\* C6: every node of the network is farther than radius + 300 m from the
\* centre of every blockage of the list, and every cluster node farther than
\* radius + 500 m.
C6_NetworkIsSafe ==
    ret # <<>> =>
        \A n \in 1..Len(ret[1]), k \in 1..Len(args.blockages) :
            LET node     == ret[1][n]
                blockage == args.blockages[k]
                distance == geodesic(<<node.lat, node.lon>>, <<blockage.lat, blockage.lon>>)
            IN  /\ distance > blockage.radius + 300
                /\ node.name[1] = "Cluster_WP" => distance > blockage.radius + 500

\* Two blockages: a candidate around one was dropped for the other, and ring
\* and cluster nodes were kept
C6_Witness ==
    /\ ret # <<>>
    /\ Len(args.blockages) = 2
    /\ \E n \in 1..Len(ret[1]) : ret[1][n].name[1] = "Cluster_WP"
    /\ \E n \in 1..Len(ret[1]) : ret[1][n].name[1] = "WP_B"
    /\ Cardinality({ n \in 1..Len(ret[1]) : ret[1][n].name[1] = "WP_B" })
         < Len(args.blockages) * Len(rings) * Len(angles)

\* C7: for every path and blockage list the report has conflict_percentage
\* in [0, 100], conflict_length <= total_length, and conflict_percentage = 0
\* when total_length = 0.
C7_ReportBounds ==
    ret # <<>> =>
        /\ ret[1].conflict_percentage \in 0..10000
        /\ "conflict_length" \in DOMAIN ret[1]
        /\ "total_length" \in DOMAIN ret[1]
        /\ ret[1].conflict_length <= ret[1].total_length
        /\ ret[1].total_length = 0 => ret[1].conflict_percentage = 0

\* C8: the explorer returns at most 50 combinations, in non-decreasing
\* order of estimated_distance, all of them generated combinations, and every
\* generated combination that is not returned is at least as long as every
\* returned one.
C8_SortedAndBounded ==
    ret # <<>> =>
        LET kept == ret[1]
            all  == AllCombinations(args.start, args.end, args.network, args.blockages)
        IN  /\ Len(kept) <= 50
            /\ Len(kept) = Min(50, Len(all))
            /\ \A k \in 1..(Len(kept) - 1) :
                  kept[k].estimated_distance <= kept[k + 1].estimated_distance
            /\ \A k \in 1..Len(kept) : \E a \in 1..Len(all) : all[a] = kept[k]
            /\ \A a \in 1..Len(all) :
                  \/ \E k \in 1..Len(kept) : kept[k] = all[a]
                  \/ \A k \in 1..Len(kept) :
                        kept[k].estimated_distance <= all[a].estimated_distance

\* More than 50 combinations were generated, out of order, and cut to 50
C8_Witness ==
    /\ ret # <<>>
    /\ Len(ret[1]) = 50
    /\ LET all == AllCombinations(args.start, args.end, args.network, args.blockages)
       IN  /\ Len(all) > 50
           /\ \E a \in 1..(Len(all) - 1) :
                 all[a].estimated_distance > all[a + 1].estimated_distance

\* C9: for every pair of distances the score of a conflict-free candidate is
\* strictly greater than the score of the same candidate with conflicts of
\* any positive percentage.
C9_ConflictFreeScoresHigher ==
    ret # <<>> => ret[1].free > ret[1].hit

(***************************************************************************)
(* Order of the steps of a route calculation                               *)
(***************************************************************************)
\* The call of calculate_optimal_route that a step begins had its direct
\* route from the provider
BeginsWithDirectRoute ==
    /\ pc = "idle"
    /\ request'.op = "calculate_optimal_route"
    /\ direct_route' # <<>>

\* C11: when the caller asked to ignore the obstacles (show_direct) or the
\* blockage list is empty, and the direct route was obtained,
\* calculate_optimal_route returns the direct route, with the points, the
\* distance and the duration of the provider's direct result, and ends
\* without the conflict detector, the alternatives step or the waypoint
\* search: the provider was asked once, no conflict report was made and no
\* variable of the search was touched.
C11_DirectWithoutSearch ==
    [][ (BeginsWithDirectRoute /\ (request'.show_direct \/ blockages = <<>>)) =>
            /\ pc' = "done"
            /\ result'[1].success
            /\ result'[1].route = route_data'[1].route
            /\ result'[1].distance_km = route_data'[1].distance
            /\ result'[1].estimated_time_minutes = route_data'[1].duration
            /\ "conflicts" \notin DOMAIN result'[1]
            /\ conflicts' = <<>>
            /\ requests' = << Request("direct", <<>>) >>
            /\ UNCHANGED search_vars ]_vars

\* The obstacles were ignored on request although the direct route crosses
\* one
C11_Witness ==
    /\ Returned("calculate_optimal_route")
    /\ request.show_direct
    /\ blockages # <<>>
    /\ direct_route # <<>>
    /\ result[1].route = route_data[1].route
    /\ calculate_route_conflicts(result[1].route, blockages).has_conflicts
    /\ conflicts = <<>>
    /\ requests = << Request("direct", <<>>) >>

\* The avoidance search of the call has been started
SearchStarted ==
    \/ pc \in {"try_alternatives", "alternatives_scored", "explore"}
    \/ /\ Returned("calculate_optimal_route")
       /\ \E k \in 1..Len(requests) : requests[k].phase # "direct"

\* C12: the avoidance search (the alternatives request, the network, the
\* waypoint requests) is started only after the conflict detector reported
\* has_conflicts = true on the direct route; a direct route that the
\* detector finds free of conflicts is returned with that report, and the
\* search is never started.
C12_SearchOnlyAfterConflict ==
    /\ [](SearchStarted =>
            /\ direct_route # <<>>
            /\ conflicts = << calculate_route_conflicts(direct_route[1].route, snapshot) >>
            /\ conflicts[1].has_conflicts)
    /\ [][ ( /\ BeginsWithDirectRoute
             /\ ~request'.show_direct
             /\ blockages # <<>>
             /\ ~calculate_route_conflicts(direct_route'[1].route, blockages).has_conflicts )
           => /\ pc' = "done"
              /\ result'[1].success
              /\ result'[1].route = route_data'[1].route
              /\ "conflicts" \in DOMAIN result'[1]
              /\ result'[1].conflicts =
                     calculate_route_conflicts(route_data'[1].route, blockages)
              /\ requests' = << Request("direct", <<>>) >>
              /\ UNCHANGED search_vars ]_vars

\* A direct route that passes a blockage without touching it was returned
\* with its report
C12_Witness ==
    /\ Returned("calculate_optimal_route")
    /\ ~request.show_direct
    /\ blockages # <<>>
    /\ conflicts # <<>>
    /\ ~conflicts[1].has_conflicts
    /\ result[1].conflicts = conflicts[1]
    /\ ~SearchStarted

\* The route the search returned is a natural alternative
IsAlternative(route) ==
    /\ "exploration_method" \in DOMAIN route
    /\ route.exploration_method = "OSRM Natural Alternatives"

\* C13: in find_optimal_avoidance_route the best-scoring natural
\* alternative is returned if and only if the provider gave a multi-route
\* result and the best alternative's score is above 50; in every other
\* case (a single-route or synthetic result, or a best score of 50 or less)
\* the search goes on to build the network and to explore combinations.
C13_AlternativeIffGood ==
    [][ pc = "alternatives_scored" =>
          IF /\ GetMultiple(alt_route_data[1])
             /\ seen.count > 0
             /\ seen.max > 5000
          THEN /\ pc' = "done"
               /\ best_alternative # <<>>
               /\ best_alternative[1].strategy_name =
                      <<"OSRM Natural Alternative", seen.first>>
               /\ avoidance_route' = best_alternative
               /\ result'[1].route = best_alternative[1].route
               /\ all_paths' = <<>>
               /\ requests' = requests
          ELSE /\ pc' = "explore"
               /\ i' = 1
               /\ avoidance_route' = <<>>
               /\ result' = <<>> ]_vars

\* The second of two alternatives scored above 50 and was returned
C13_Witness ==
    /\ Returned("calculate_optimal_route")
    /\ avoidance_route # <<>>
    /\ IsAlternative(avoidance_route[1])
    /\ seen.count = 2
    /\ seen.first = 2
    /\ result[1].route = avoidance_route[1].route
    /\ all_paths = <<>>

\* The provider requests of the exploration loop, in the order they were
\* made
ExploreRequests == SelectSeq(requests, LAMBDA r : r.phase = "explore")

\* The requests for the first n combinations, one each, in list order
OneEach(n) == [ k \in 1..n |-> Request("explore", all_paths[k].waypoints) ]

\* C14: during the exploration find_optimal_avoidance_route makes exactly
\* one provider request for each combination the explorer returned, in
\* list order, and does not stop when a candidate without conflicts is
\* found; the number of requests of this phase is the number of
\* combinations, and at most 50.
C14_OneRequestPerCombination ==
    /\ [](pc = "explore" =>
            /\ ExploreRequests = OneEach(i - 1)
            /\ Len(all_paths) <= 50)
    /\ [](Returned("calculate_optimal_route") =>
            /\ ExploreRequests = OneEach(Len(all_paths))
            /\ Len(ExploreRequests) <= 50)
    /\ [][ (pc = "explore" /\ i <= Len(all_paths)) =>
              (pc' = "explore" /\ i' = i + 1) ]_vars

\* The loop found a candidate without conflicts before the last
\* combination and went on to the end
C14_Witness ==
    /\ Returned("calculate_optimal_route")
    /\ Len(all_paths) > 1
    /\ best_path # <<>>
    /\ ~best_path[1].conflicts.has_conflicts
    /\ seen.first < Len(all_paths)
    /\ Len(ExploreRequests) = Len(all_paths)

(***************************************************************************)
(* The blockage list                                                       *)
(***************************************************************************)
\* C15: after any sequence of add_blockage, remove and clear_blockages
\* calls with arbitrary arguments, every blockage of the list has
\* radius > 0, a latitude in [-90, 90] and a longitude in [-180, 180].
C15_ListIsValid ==
    \A k \in 1..Len(blockages) :
        /\ FloatLt(0, blockages[k].radius)
        /\ FloatLe(-90 * 111000, blockages[k].lat)
        /\ FloatLe(blockages[k].lat, 90 * 111000)
        /\ FloatLe(-180 * 111000, blockages[k].lon)
        /\ FloatLe(blockages[k].lon, 180 * 111000)

\* C16: a caller's add, remove or clear on the blockage list while a
\* calculate_optimal_route call is in flight does not affect the call:
\* the scoring of the alternatives, the network and the combinations, and
\* the conflict check of every candidate use the blockage list as it was
\* when the call started.
C16_CallUsesSnapshot ==
    /\ (pc = "alternatives_scored" /\ best_alternative # <<>>) =>
          best_alternative[1].conflicts =
              calculate_route_conflicts(best_alternative[1].route, snapshot)
    /\ pc = "explore" =>
          /\ all_paths = explore_all_path_combinations(
                             request.start[1], request.end[1],
                             build_comprehensive_network(request.start[1],
                                                         request.end[1], snapshot),
                             snapshot)
          /\ best_path # <<>> =>
                best_path[1].conflicts =
                    calculate_route_conflicts(best_path[1].route, snapshot)

(***************************************************************************)
(* Repeated calls of the provider                                          *)
(***************************************************************************)
\* Every mirror failed at a call of the request in args
EveryMirrorFails(responses) ==
    \A server \in 1..Len(routing_services) :
        MirrorFails(responses[server], args.waypoints)

\* The legs of the request in args: start, waypoints, end
Legs == AllPoints(args.start, args.end, args.waypoints)

AnswersOk(response) ==
    /\ ~response.raised
    /\ response.status_code = 200
    /\ response.code = "Ok"
    /\ response.routes # <<>>

\* The first mirror in list order of the set good; 0 if there is none
FirstOf(good) ==
    IF good = {} THEN 0 ELSE CHOOSE m \in good : \A n \in good : m <= n

FirstOk(responses) ==
    FirstOf({ m \in 1..Len(routing_services) : AnswersOk(responses[m]) })

\* ... whose first route, where a single route is returned, is complete
FirstUsable(responses) ==
    FirstOf({ m \in 1..Len(routing_services) :
                ~MirrorFails(responses[m], args.waypoints) })

\* The result was built from this response
FromMirror(returned, response) ==
    IF GetMultiple(returned)
    THEN returned.routes = response.routes
    ELSE /\ "geometry" \in DOMAIN response.routes[1]
         /\ returned.route = SwapAll(response.routes[1].geometry.coordinates)
         /\ returned.distance = response.routes[1].distance
         /\ returned.duration = response.routes[1].duration

\* The call asked the mirrors in list order up to mirror number first and
\* returned what that mirror gave; with first = 0 it asked every mirror and
\* returned the synthetic route
InOrder(call, first) ==
    /\ call.contacted =
          [ k \in 1..(IF first = 0 THEN Len(routing_services) ELSE first) |-> k ]
    /\ call.result.service = "Offline" <=> first = 0
    /\ first > 0 =>
          /\ call.result.service = "OSRM"
          /\ FromMirror(call.result, call.responses[first])

\* C19: get_reliable_route asks the mirrors in their list order, returns at
\* the first mirror that gives HTTP 200 with code "Ok" and a routes list
\* that is not empty, without asking a later mirror, moves to the next
\* mirror on any other outcome, and uses the synthetic generator only after
\* every mirror was asked and failed.
C19_StopsAtFirstOk ==
    \A k \in 1..Len(ret) : InOrder(ret[k], FirstOk(ret[k].responses))

\* C19 as amended: ... returns at the first mirror that gives HTTP 200 with
\* code "Ok" and a routes list that is not empty and from whose answer the
\* result can be built (several routes handed back as they are when no
\* waypoints were supplied, otherwise a first route that has its geometry);
\* on any other outcome, an exception while the answer is read included, it
\* moves to the next mirror.
C19_StopsAtFirstUsable ==
    \A k \in 1..Len(ret) : InOrder(ret[k], FirstUsable(ret[k].responses))

\* The first mirror answered "Ok" with a route that has no geometry, and the
\* second mirror's route was returned
C19_Witness ==
    /\ Len(ret) >= 1
    /\ AnswersOk(ret[1].responses[1])
    /\ FirstUsable(ret[1].responses) = 2
    /\ ret[1].contacted = <<1, 2>>
    /\ ret[1].result.service = "OSRM"
    /\ FromMirror(ret[1].result, ret[1].responses[2])

\* The fields of a single-route result
SingleFields == { "success", "route", "distance", "duration" }

\* C20: when a mirror's answer is taken, get_reliable_route returns a
\* multi-route result (all the routes as they came, without success, route,
\* distance or duration) if and only if no waypoints were supplied and the
\* answer has more than one route; in every other case, and so whenever a
\* waypoint is supplied, it returns the first route alone with
\* success = true: every waypoint request yields a route that can be scored.
C20_MultipleIffNoWaypoints ==
    \A k \in 1..Len(ret) :
        LET returned == ret[k].result
            first    == FirstUsable(ret[k].responses)
        IN  /\ first > 0 =>
                  LET routes == ret[k].responses[first].routes
                  IN  /\ GetMultiple(returned) <=>
                            (args.waypoints = <<>> /\ Len(routes) > 1)
                      /\ IF GetMultiple(returned)
                         THEN /\ returned.routes = routes
                              /\ DOMAIN returned \cap SingleFields = {}
                         ELSE /\ SingleFields \subseteq DOMAIN returned
                              /\ returned.success
                              /\ returned.route =
                                    SwapAll(routes[1].geometry.coordinates)
                              /\ returned.distance = routes[1].distance
                              /\ returned.duration = routes[1].duration
            /\ args.waypoints # <<>> =>
                  /\ GetSuccess(returned)
                  /\ returned.route # <<>>

\* A waypoint request that a mirror answered with two routes, and the
\* first of them was returned
C20_Witness ==
    /\ Len(ret) >= 1
    /\ args.waypoints # <<>>
    /\ FirstUsable(ret[1].responses) = 1
    /\ Len(ret[1].responses[1].routes) = 2
    /\ GetSuccess(ret[1].result)
    /\ ret[1].result.route =
          SwapAll(ret[1].responses[1].routes[1].geometry.coordinates)

(***************************************************************************)
(* The fields of the returned result                                       *)
(***************************************************************************)
\* direct / actual * 100 capped at 100, in hundredths: the straight-line
\* distance of the request over the length of a route
RatioCapped(straight, distance) == Min(10000, (straight * 10000) \div distance)

\* C21: in every successful result of calculate_direct_route or
\* calculate_optimal_route, efficiency_score is the straight-line distance
\* between start and end over the returned route's distance, times 100 and
\* capped at 100, and so lies in [0, 100].
C21_EfficiencyIsRatio ==
    (pc = "done" /\ result[1].success /\ result[1].distance_km > 0) =>
        /\ result[1].efficiency_score \in 0..10000
        /\ result[1].efficiency_score =
               RatioCapped(geodesic(request.start[1], request.end[1]),
                           result[1].distance_km)

\* The three labels of a result built from a route of the search
AvoidanceLabels ==
    { "Perfect Avoidance Route", "Improved Avoidance Route", "Partial Avoidance Route" }

\* C22: when the avoidance search returns a candidate, calculate_optimal_route
\* labels it by its improvement over the direct route: "perfect" if and only
\* if the candidate has no conflicts; otherwise "improved" if and only if its
\* conflict_percentage is strictly less than half the direct route's;
\* otherwise "partial".  Exactly one of the three labels is assigned.
C22_LabelByImprovement ==
    ret # <<>> =>
        LET label      == ret[1].route_type[1]
            own        == args.avoidance
            direct_pct == args.direct.conflict_percentage
        IN  /\ label \in AvoidanceLabels
            /\ ret[1].conflicts = own
            /\ label = "Perfect Avoidance Route" <=> ~own.has_conflicts
            /\ label = "Improved Avoidance Route" <=>
                  (own.has_conflicts /\ 2 * own.conflict_percentage < direct_pct)
            /\ label = "Partial Avoidance Route" <=>
                  (own.has_conflicts /\ 2 * own.conflict_percentage >= direct_pct)

\* A candidate with less conflict than the direct route, but not less than
\* half of it, was labelled "partial"
C22_Witness ==
    /\ ret # <<>>
    /\ args.avoidance.has_conflicts
    /\ args.avoidance.conflict_percentage < args.direct.conflict_percentage
    /\ 2 * args.avoidance.conflict_percentage = args.direct.conflict_percentage
    /\ ret[1].route_type[1] = "Partial Avoidance Route"

(***************************************************************************)
(* Properties of the conflict report                                       *)
(***************************************************************************)
\* The segments of the path in args that have an entry in the report, as
\* the entries name them (0-based), in the order of the entries
EntrySegments(report) ==
    [ k \in 1..Len(report.conflict_points) |-> report.conflict_points[k].index ]

\* The full length of segment number index (0-based) of the path in args
SegmentLength(index) == geodesic(args.route[index + 1], args.route[index + 2])

\* C23: first hit wins in the conflict detector: for every path and blockage
\* list the report holds at most one conflict entry per segment, the
\* segment indices of the entries are strictly increasing, and
\* conflict_length is the sum of the full lengths of exactly the segments
\* that have an entry.
C23_FirstHitWins ==
    ret # <<>> =>
        LET segments == EntrySegments(ret[1])
        IN  /\ \A k \in 1..(Len(segments) - 1) : segments[k] < segments[k + 1]
            /\ \A k \in 1..Len(segments) : segments[k] \in 0..(Len(args.route) - 2)
            /\ "conflict_length" \in DOMAIN ret[1]
            /\ ret[1].conflict_length =
                   SumSeq([ k \in 1..Len(segments) |-> SegmentLength(segments[k]) ])

(***************************************************************************)
(* Properties of the score                                                 *)
(***************************************************************************)
\* The scoring rule as the specification words it, in hundredths: the
\* efficiency, the conflict penalty or bonus, then the detour adjustment
\* (a detour ratio over a straight-line distance of 0 exceeds every bound)
RuleEfficiency(direct, actual) ==
    IF actual <= 0 THEN 0 ELSE Min(10000, (direct * 10000) \div actual)

RuleAfterConflicts(efficiency, report) ==
    IF report.has_conflicts
    THEN Max(0, efficiency - report.conflict_percentage * 20)
    ELSE efficiency + 10000

ScoringRule(direct, actual, report) ==
    LET score == RuleAfterConflicts(RuleEfficiency(direct, actual), report)
    IN  IF direct <= 0 THEN NegInf
        ELSE IF 2 * actual > 5 * direct
             THEN score - ((4000 * actual) \div direct - 10000)
        ELSE IF 2 * actual < 3 * direct THEN score + 2000
        ELSE score

\* C24: for every directDistance >= 0, every actualDistance (actualDistance
\* <= 0 included) and every conflict report, RoutePath.calculate_score
\* returns the value of the scoring rule: efficiency = min(100, direct /
\* actual x 100), or 0 if actual <= 0; minus conflictPercentage x 20,
\* floored at 0, if conflicts are present, else plus 100; then minus
\* (ratio - 2.5) x 40 if the detour ratio exceeds 2.5, or plus 20 if it is
\* below 1.5.
C24_ScoreFollowsRule ==
    ret # <<>> =>
        /\ ret[1].free =
               ScoringRule(args.direct_distance, args.total_distance, FreeReport)
        /\ ret[1].hit =
               ScoringRule(args.direct_distance, args.total_distance,
                           HitReport(args.conflict_percentage))

(***************************************************************************)
(* Properties of the combinations                                          *)
(***************************************************************************)
\* The coordinates of the nodes of the network in args
NodeCoordinates ==
    { << args.network[n].lat, args.network[n].lon >> : n \in 1..Len(args.network) }

\* The returned combinations that have two waypoints
DualReturned == { k \in 1..Len(ret[1]) : Len(ret[1][k].waypoints) = 2 }

\* C25: _explore_all_path_combinations returns a two-waypoint combination
\* only when the blockage list has more than one blockage or some blockage
\* has a radius above 1500 m; with a single blockage of radius <= 1500 m
\* every returned combination has exactly one waypoint.  Every returned
\* combination has one or two waypoints, each the coordinates of a node of
\* the given network.
C25_DualOnlyWhenComplex ==
    ret # <<>> =>
        /\ \A k \in 1..Len(ret[1]) :
              /\ Len(ret[1][k].waypoints) \in {1, 2}
              /\ ret[1][k].waypoint_count = Len(ret[1][k].waypoints)
              /\ \A w \in 1..Len(ret[1][k].waypoints) :
                    ret[1][k].waypoints[w] \in NodeCoordinates
        /\ DualReturned # {} =>
              \/ Len(args.blockages) > 1
              \/ \E b \in 1..Len(args.blockages) : args.blockages[b].radius > 1500
        /\ (Len(args.blockages) = 1 /\ args.blockages[1].radius <= 1500) =>
              \A k \in 1..Len(ret[1]) : Len(ret[1][k].waypoints) = 1

\* One blockage of radius 2000 m: single and two-waypoint combinations were
\* returned
C25_Witness ==
    /\ ret # <<>>
    /\ Len(args.blockages) = 1
    /\ args.blockages[1].radius > 1500
    /\ DualReturned # {}
    /\ DualReturned # 1..Len(ret[1])

(***************************************************************************)
(* The blockage list during a route calculation                            *)
(***************************************************************************)
\* C26: calculate_optimal_route and every engine operation it calls (the
\* conflict detector, the scoring of the alternatives, the network builder,
\* the explorer) leave the blockage list of the navigation system
\* unchanged: at every step of the call and on every exit path the list
\* holds the same blockages in the same order as when the call began.
C26_CallLeavesListAlone ==
    /\ [](InFlight => (held = blockages /\ blockages = snapshot))
    /\ []((Returned("calculate_optimal_route") /\ route_data # <<>>) =>
             blockages = snapshot)
    /\ [][ (pc # "idle" \/ pc' # "idle") => blockages' = blockages ]_vars

\* The search went through the exploration loop and returned; the list
\* still holds its blockage
C26_Witness ==
    /\ Returned("calculate_optimal_route")
    /\ all_paths # <<>>
    /\ i > Len(all_paths)
    /\ blockages # <<>>
    /\ blockages = snapshot
    /\ held = blockages

(***************************************************************************)
(* Single calls on the blockage list                                       *)
(***************************************************************************)
\* The arguments of the add_blockage call in args are of the kind that is
\* rejected: a latitude outside [-90, 90], a longitude outside [-180, 180]
\* or a radius <= 0
Rejected ==
    \/ ~(FloatLe(-90 * 111000, args.lat) /\ FloatLe(args.lat, 90 * 111000))
    \/ ~(FloatLe(-180 * 111000, args.lon) /\ FloatLe(args.lon, 180 * 111000))
    \/ FloatLe(args.radius, 0)

\* C27: a rejected add_blockage (latitude outside [-90, 90], longitude
\* outside [-180, 180] or radius <= 0) leaves the blockage list exactly as
\* it was; an accepted add_blockage appends exactly one blockage at the end
\* and changes no entry that was there; clear_blockages leaves the list
\* empty.
C27_ListChangesOnlyAsAsked ==
    /\ (args # <<>> /\ args.op = "add_blockage") =>
          IF Rejected
          THEN blockages = args.before
          ELSE /\ Len(blockages) = Len(args.before) + 1
               /\ SubSeq(blockages, 1, Len(args.before)) = args.before
               /\ blockages[Len(blockages)] =
                      [ lat |-> args.lat, lon |-> args.lon, radius |-> args.radius,
                        description |-> args.description ]
    /\ (args # <<>> /\ args.op = "clear_blockages") => blockages = <<>>

\* A second blockage was added behind the first
C27_Witness ==
    /\ args # <<>>
    /\ args.op = "add_blockage"
    /\ ~Rejected
    /\ args.before # <<>>
    /\ Len(blockages) = 2
    /\ blockages[1] = args.before[1]
    /\ blockages[2].radius # blockages[1].radius

(***************************************************************************)
(* The route that replaces the direct route                                *)
(***************************************************************************)
\* C28: whenever calculate_optimal_route returns an avoidance route instead
\* of the direct route (a natural alternative or a waypoint candidate), the
\* returned route's conflict_percentage is not greater than the direct
\* route's: a route labelled as an improvement is never worse than the
\* direct route it replaces.
C28_NeverWorseThanDirect ==
    (Returned("calculate_optimal_route") /\ avoidance_route # <<>>) =>
        /\ result[1].conflicts = avoidance_route[1].conflicts
        /\ result[1].conflicts.conflict_percentage <= conflicts[1].conflict_percentage

\* --- _try_osrm_alternatives ---
\* Lines 818-872 for the provider's answer (route_data): the best alternative
\* when it is good (a sequence of one route), or None
try_osrm_alternatives(start, end, blks, answer) ==
    LET Decide(loop) ==
            IF GoodAlternative(loop.best_alternative, loop.best_score)
            THEN loop.best_alternative
            ELSE <<>>
    IN  Decide(ScoreAlternatives(start, end, blks, answer))

\* The last vertex of the road to FarEnd, 100 m before the destination
LastVertex == <<2122281, 8091803>>

\* The road to FarEnd with that vertex drawn, as an entry of the service's
\* 'routes' list
DrawnRoute ==
    [ distance |-> Polyline(<<Start, LastVertex, FarEnd>>),
      duration |-> MulDiv(Polyline(<<Start, LastVertex, FarEnd>>), 12, 100),
      geometry |-> [ coordinates |-> SwapAll(<<Start, LastVertex, FarEnd>>) ] ]

\* The lists of routes a multi-route answer holds: two different routes
AlternativeLists ==
    LET offered == { ServiceRoute(k, Start, FarEnd, <<>>) : k \in RouteKinds }
                   \cup { DrawnRoute }
    IN  { <<a, b>> : a, b \in offered } \ { <<a, a>> : a \in offered }

\* Blockage lists: none, the form's default position, and a closure 1.1 km
\* beyond the destination whose safety margin reaches it
AlternativeBlockages ==
    { <<>> }
    \cup { << Blockage(2121258, 8086804, r, "Road closure") >> : r \in {1000, 2000} }
    \cup { << Blockage(2122749, 8092972, r, "Road closure") >> : r \in {500, 1000} }
    \cup { << Blockage(2121258, 8086804, 1000, "Road closure"),
              Blockage(2122749, 8092972, 1000, "Road closure") >> }

InitAlternatives ==
    /\ Quiet
    /\ args \in { [ start |-> Start, end |-> FarEnd, blockages |-> l,
                    route_data |-> [ routes |-> rs, multiple_routes |-> TRUE,
                                     service |-> "OSRM" ] ] :
                    l \in AlternativeBlockages, rs \in AlternativeLists }

AlternativesCall ==
    /\ ret = <<>>
    /\ ret' = << try_osrm_alternatives(args.start, args.end, args.blockages,
                                       args.route_data) >>
    /\ UNCHANGED << system_vars, search_vars, args >>

NextAlternatives == AlternativesCall

SpecAlternatives == InitAlternatives /\ [][NextAlternatives]_vars

\* C29: every natural alternative that _try_osrm_alternatives returns (its
\* best score is above 50), and which therefore ends the avoidance search
\* before any waypoint candidate is tried, is free of conflicts.
C29_GoodAlternativeIsFree ==
    (ret # <<>> /\ ret[1] # <<>>) => ~ret[1][1].conflicts.has_conflicts

(***************************************************************************)
(* Conflicts and conflict percentage                                       *)
(***************************************************************************)
\* C30: for every report of calculate_route_conflicts, has_conflicts is
\* true if and only if conflict_percentage > 0, and, where the report
\* carries a conflict_length, if and only if conflict_length > 0; this
\* includes paths with repeated consecutive points (segments of length zero).
C30_ConflictsIffPercentage ==
    ret # <<>> =>
        /\ ret[1].has_conflicts <=> ret[1].conflict_percentage > 0
        /\ "conflict_length" \in DOMAIN ret[1] =>
              (ret[1].has_conflicts <=> ret[1].conflict_length > 0)

====
